---- MODULE Spec2Model ----
\* A model of the go-syslog receiver (server.go) and of the parsers it drives.
\* Byte strings are sequences of one-character strings; Go's 0-based cursor is
\* kept, so the byte at cursor i of buff is buff[i + 1].
EXTENDS Integers, Sequences, FiniteSets, TLC

\* ---------------------------------------------------------------- bounds
\* environment inputs (connections arriving, records sent, datagrams sent,
\* transient read errors) the model lets happen in one run
MaxInputs == 2
\* accepted stream connections
MaxStreamConns == 1
\* largest value given to SetDatagramChannelSize
MaxChannelSize == 1

\* ------------------------------------------------------- program constants
datagramChannelBufferSize == 10

\* ------------------------------------------------------------------ bytes
Digits == {"0", "1", "2", "3", "4", "5", "6", "7", "8", "9"}

IsDigit(c) == c \in Digits

DigitVal(c) ==
    CASE c = "0" -> 0 [] c = "1" -> 1 [] c = "2" -> 2 [] c = "3" -> 3
      [] c = "4" -> 4 [] c = "5" -> 5 [] c = "6" -> 6 [] c = "7" -> 7
      [] c = "8" -> 8 [] c = "9" -> 9

Upper == {"A", "B", "C", "D", "E", "F", "G", "H", "I", "J", "K", "L", "M",
          "N", "O", "P", "Q", "R", "S", "T", "U", "V", "W", "X", "Y", "Z"}

Lower == {"a", "b", "c", "d", "e", "f", "g", "h", "i", "j", "k", "l", "m",
          "n", "o", "p", "q", "r", "s", "t", "u", "v", "w", "x", "y", "z"}

\* the regexp class \w
WordBytes == Upper \cup Lower \cup Digits \cup {"_"}

\* bytes below ASCII 32 that the inputs use
ControlBytes == {"\n", "\r"}

\* Go's buff[from:to]
Slice(buff, from, to) == SubSeq(buff, from + 1, to)

\* Go's buff[i]
At(buff, i) == buff[i + 1]

AllDigits(buff, from, to) == \A i \in from .. (to - 1) : IsDigit(At(buff, i))

RECURSIVE Atoi(_)
Atoi(s) == IF s = <<>> THEN 0 ELSE 10 * Atoi(SubSeq(s, 1, Len(s) - 1)) + DigitVal(s[Len(s)])

\* a digit string without its leading zeros (one digit is kept)
RECURSIVE TrimZeros(_)
TrimZeros(d) == IF Len(d) > 1 /\ d[1] = "0" THEN TrimZeros(Tail(d)) ELSE d

HasAt(buff, i, pat) ==
    /\ i + Len(pat) <= Len(buff)
    /\ \A k \in 1 .. Len(pat) : buff[i + k] = pat[k]

\* strings.Contains
Contains(buff, pat) == \E i \in 0 .. (Len(buff) - Len(pat)) : HasAt(buff, i, pat)

\* strings.Index, -1 when absent
Index(buff, pat) ==
    IF Contains(buff, pat)
    THEN CHOOSE i \in 0 .. (Len(buff) - Len(pat)) :
            /\ HasAt(buff, i, pat)
            /\ \A j \in 0 .. (i - 1) : ~HasAt(buff, j, pat)
    ELSE -1

\* ------------------------------------------------ primitive scanners
\* syslogparser.ParsePriority: '<', one to three digits, '>', value in 0..191
PriorityEnd(buff, cursor, l) ==
    IF \E j \in (cursor + 2) .. (cursor + 4) :
            j < l /\ At(buff, j) = ">" /\ AllDigits(buff, cursor + 1, j)
    THEN CHOOSE j \in (cursor + 2) .. (cursor + 4) :
            j < l /\ At(buff, j) = ">" /\ AllDigits(buff, cursor + 1, j)
    ELSE -1

newPriority(p) == [P |-> p, F |-> p \div 8, S |-> p % 8]

ParsePriority(buff, cursor, l) ==
    LET j == PriorityEnd(buff, cursor, l)
        bad == [err |-> "ErrPriority", pri |-> newPriority(0), cursor |-> cursor]
    IN  IF cursor >= l \/ At(buff, cursor) # "<" \/ j = -1 THEN bad
        ELSE IF Atoi(Slice(buff, cursor + 1, j)) > 191 THEN bad
        ELSE [err |-> "nil", pri |-> newPriority(Atoi(Slice(buff, cursor + 1, j))),
              cursor |-> j + 1]

\* index of the first space at or after from, l when there is none
NextSpace(buff, from, l) ==
    IF \E i \in from .. (l - 1) : At(buff, i) = " "
    THEN CHOOSE i \in from .. (l - 1) :
            At(buff, i) = " " /\ \A k \in from .. (i - 1) : At(buff, k) # " "
    ELSE l

\* syslogparser.ParseHostname: the run of bytes up to the next space
ParseHostname(buff, cursor, l) ==
    LET to == IF cursor >= l THEN cursor ELSE NextSpace(buff, cursor, l)
    IN  [err |-> "nil", hostname |-> Slice(buff, cursor, to), cursor |-> to]

\* ------------------------------------------------------------ time values
\* the year the clock shows, and the instant time.Now() returns
CurrentYear == 2026

\* a calendar time: off is the zone offset in minutes, frac the fraction digits;
\* unix holds the digits of an epoch-seconds value when the time came from one
NoTime == [now |-> FALSE, y |-> 0, mo |-> 0, d |-> 0, h |-> 0, mi |-> 0, s |-> 0,
           frac |-> <<>>, off |-> 0, unix |-> <<>>]

Now == [NoTime EXCEPT !.now = TRUE]

MonthNames ==
    << <<"J", "a", "n">>, <<"F", "e", "b">>, <<"M", "a", "r">>, <<"A", "p", "r">>,
       <<"M", "a", "y">>, <<"J", "u", "n">>, <<"J", "u", "l">>, <<"A", "u", "g">>,
       <<"S", "e", "p">>, <<"O", "c", "t">>, <<"N", "o", "v">>, <<"D", "e", "c">> >>

MonthOf(name) ==
    IF \E m \in 1 .. 12 : MonthNames[m] = name
    THEN CHOOSE m \in 1 .. 12 : MonthNames[m] = name
    ELSE 0

IsLeap(y) == y % 4 = 0 /\ (y % 100 # 0 \/ y % 400 = 0)

DaysIn(mo, y) ==
    IF mo = 2 THEN (IF IsLeap(y) THEN 29 ELSE 28)
    ELSE IF mo \in {4, 6, 9, 11} THEN 30 ELSE 31

Time(y, mo, d, h, mi, s, frac, off) ==
    [now |-> FALSE, y |-> y, mo |-> mo, d |-> d, h |-> h, mi |-> mi, s |-> s,
     frac |-> frac, off |-> off, unix |-> <<>>]

\* "HH:MM:SS" at offset i of s, with the ranges time.Parse enforces
ClockAt(s, i) ==
    /\ i + 8 <= Len(s)
    /\ AllDigits(s, i, i + 2) /\ At(s, i + 2) = ":"
    /\ AllDigits(s, i + 3, i + 5) /\ At(s, i + 5) = ":"
    /\ AllDigits(s, i + 6, i + 8)
    /\ Atoi(Slice(s, i, i + 2)) <= 23
    /\ Atoi(Slice(s, i + 3, i + 5)) <= 59
    /\ Atoi(Slice(s, i + 6, i + 8)) <= 59

\* "YYYY-MM-DD" at offset i of s
DateAt(s, i) ==
    /\ i + 10 <= Len(s)
    /\ AllDigits(s, i, i + 4) /\ At(s, i + 4) = "-"
    /\ AllDigits(s, i + 5, i + 7) /\ At(s, i + 7) = "-"
    /\ AllDigits(s, i + 8, i + 10)
    /\ Atoi(Slice(s, i + 5, i + 7)) \in 1 .. 12
    /\ Atoi(Slice(s, i + 8, i + 10)) >= 1
    /\ Atoi(Slice(s, i + 8, i + 10))
          <= DaysIn(Atoi(Slice(s, i + 5, i + 7)), Atoi(Slice(s, i, i + 4)))

\* time.Stamp, "Jan _2 15:04:05": does time.ParseInLocation accept s
StampDay(s) == IF s[5] = " " THEN DigitVal(s[6]) ELSE Atoi(SubSeq(s, 5, 6))

MatchStamp(s) ==
    /\ Len(s) = 15
    /\ MonthOf(SubSeq(s, 1, 3)) # 0
    /\ s[4] = " " /\ s[7] = " "
    /\ (s[5] = " " \/ IsDigit(s[5])) /\ IsDigit(s[6])
    /\ StampDay(s) >= 1 /\ StampDay(s) <= DaysIn(MonthOf(SubSeq(s, 1, 3)), 0)
    /\ ClockAt(s, 7)

StampTime(s) ==
    Time(0, MonthOf(SubSeq(s, 1, 3)), StampDay(s), Atoi(SubSeq(s, 8, 9)),
         Atoi(SubSeq(s, 11, 12)), Atoi(SubSeq(s, 14, 15)), <<>>, 0)

\* "+HH:MM" or "-HH:MM" at offset i of s
ZoneAt(s, i) ==
    /\ i + 6 <= Len(s)
    /\ At(s, i) \in {"+", "-"}
    /\ AllDigits(s, i + 1, i + 3) /\ At(s, i + 3) = ":" /\ AllDigits(s, i + 4, i + 6)
    /\ Atoi(Slice(s, i + 1, i + 3)) <= 23 /\ Atoi(Slice(s, i + 4, i + 6)) <= 59

ZoneMinutes(s, i) ==
    LET m == 60 * Atoi(Slice(s, i + 1, i + 3)) + Atoi(Slice(s, i + 4, i + 6))
    IN  IF At(s, i) = "-" THEN 0 - m ELSE m

\* time.RFC3339, "2006-01-02T15:04:05Z07:00": s must be consumed whole, so it is
\* date 'T' clock, an optional fraction, then 'Z' or a numeric offset
MatchRFC3339(s) ==
    /\ DateAt(s, 0) /\ Len(s) >= 20 /\ At(s, 10) = "T" /\ ClockAt(s, 11)
    /\ \/ Len(s) = 20 /\ At(s, 19) = "Z"
       \/ Len(s) = 25 /\ ZoneAt(s, 19)
       \/ /\ Len(s) > 21 /\ At(s, 19) = "."
          /\ \E e \in 21 .. Len(s) :
                /\ AllDigits(s, 20, e)
                /\ \/ e + 1 = Len(s) /\ At(s, e) = "Z"
                   \/ e + 6 = Len(s) /\ ZoneAt(s, e)

RFC3339FracEnd(s) ==
    IF Len(s) > 19 /\ At(s, 19) = "."
    THEN CHOOSE e \in 21 .. Len(s) :
            AllDigits(s, 20, e) /\ (e = Len(s) \/ ~IsDigit(At(s, e)))
    ELSE 19

RFC3339Time(s) ==
    LET e == RFC3339FracEnd(s)
    IN  Time(Atoi(Slice(s, 0, 4)), Atoi(Slice(s, 5, 7)), Atoi(Slice(s, 8, 10)),
             Atoi(Slice(s, 11, 13)), Atoi(Slice(s, 14, 16)), Atoi(Slice(s, 17, 19)),
             IF e > 19 THEN Slice(s, 20, e) ELSE <<>>,
             IF At(s, e) = "Z" THEN 0 ELSE ZoneMinutes(s, e))

\* fixTimestampIfNeeded: a year of zero becomes the current year
fixTimestampIfNeeded(ts) == IF ts.unix = <<>> /\ ts.y = 0 THEN [ts EXCEPT !.y = CurrentYear] ELSE ts


\* ------------------------------------------------------ RFC 3164 parser
LenStamp == 15

LenRFC3339 == 25

\* the server's own host name, as os.Hostname() returns it
LocalHostname == <<"s", "r", "v">>

\* end of the match of ^<\d+> on buff, -1 when it does not match
PriPrefixEnd(buff) ==
    IF \E j \in 2 .. (Len(buff) - 1) :
            At(buff, 0) = "<" /\ AllDigits(buff, 1, j) /\ At(buff, j) = ">"
    THEN 1 + CHOOSE j \in 2 .. (Len(buff) - 1) :
            At(buff, 0) = "<" /\ AllDigits(buff, 1, j) /\ At(buff, j) = ">"
    ELSE -1

\* ciscoASARegexp, <\d+>: with no anchor
MatchCiscoASAPriority(buff) ==
    \E i \in 0 .. (Len(buff) - 1) : \E j \in (i + 2) .. (Len(buff) - 2) :
        /\ At(buff, i) = "<" /\ AllDigits(buff, i + 1, j)
        /\ At(buff, j) = ">" /\ At(buff, j + 1) = ":"

\* \d{4}-\d{2}-\d{2}T\d{2}:\d{2}:\d{2} at offset i
IsoShapeAt(s, i) ==
    /\ i + 19 <= Len(s)
    /\ AllDigits(s, i, i + 4) /\ At(s, i + 4) = "-"
    /\ AllDigits(s, i + 5, i + 7) /\ At(s, i + 7) = "-"
    /\ AllDigits(s, i + 8, i + 10) /\ At(s, i + 10) = "T"
    /\ AllDigits(s, i + 11, i + 13) /\ At(s, i + 13) = ":"
    /\ AllDigits(s, i + 14, i + 16) /\ At(s, i + 16) = ":"
    /\ AllDigits(s, i + 17, i + 19)

\* end of the match of (?:\.\d+)?Z at offset i (only Z when frac is FALSE), or -1
IsoTailEnd(s, i, frac) ==
    IF i < Len(s) /\ At(s, i) = "Z" THEN i + 1
    ELSE IF frac /\ i < Len(s) /\ At(s, i) = "."
              /\ \E e \in (i + 2) .. (Len(s) - 1) : AllDigits(s, i + 1, e) /\ At(s, e) = "Z"
         THEN 1 + CHOOSE e \in (i + 2) .. (Len(s) - 1) :
                    AllDigits(s, i + 1, e) /\ At(s, e) = "Z"
         ELSE -1

\* ciscoASA_RFC5424Format / ciscoASATimestampCapture of the RFC 3164 package:
\* the captured timestamp, <<>> when the buffer does not match
CiscoIsoCapture(buff, frac) ==
    LET i == PriPrefixEnd(buff)
    IN  IF i # -1 /\ IsoShapeAt(buff, i) /\ IsoTailEnd(buff, i + 19, frac) # -1
        THEN Slice(buff, i, IsoTailEnd(buff, i + 19, frac))
        ELSE <<>>

checkCiscoASA_RFC5424(buff) == CiscoIsoCapture(buff, TRUE) # <<>>

parseTimestamp3164(buff, cursor, l) ==
    IF cursor >= l
    THEN [panic |-> TRUE, err |-> "nil", ts |-> NoTime, cursor |-> cursor]
    ELSE
    LET rfcFirst == At(buff, cursor) \in {"1", "2", "3", "4", "5", "6", "7", "8"}
        okStamp == /\ cursor + LenStamp <= l
                   /\ MatchStamp(Slice(buff, cursor, cursor + LenStamp))
        okRFC == /\ cursor + LenRFC3339 <= l
                 /\ MatchRFC3339(Slice(buff, cursor, cursor + LenRFC3339))
        useRFC == IF rfcFirst THEN okRFC ELSE (okRFC /\ ~okStamp)
        tsFmtLen == IF useRFC THEN LenRFC3339 ELSE LenStamp
        ts == IF useRFC THEN RFC3339Time(Slice(buff, cursor, cursor + LenRFC3339))
              ELSE StampTime(Slice(buff, cursor, cursor + LenStamp))
        after == cursor + tsFmtLen
        lost == IF LenStamp < l /\ At(buff, LenStamp) = " " THEN LenStamp + 1 ELSE LenStamp
        kind == IF MatchCiscoASAPriority(buff) THEN "ErrCiscoASAFormat"
                ELSE IF Contains(buff, <<"t", "i", "m", "e", "=", "\"">>)
                     THEN "ErrSonicOSFormat"
                ELSE IF Contains(buff, <<"e", "v", "e", "n", "t", "t", "i", "m", "e", "=">>)
                     THEN "ErrFortiOSFormat"
                ELSE IF checkCiscoASA_RFC5424(buff) THEN "ErrCiscoASARFC5424"
                ELSE "ErrTimestampUnknownFormat"
    IN  IF ~(okStamp \/ okRFC)
        THEN [panic |-> FALSE, err |-> kind, ts |-> NoTime, cursor |-> lost]
        ELSE [panic |-> FALSE, err |-> "nil", ts |-> fixTimestampIfNeeded(ts),
              cursor |-> IF after < l /\ At(buff, after) = " " THEN after + 1 ELSE after]

parseHostname3164(buff, cursor, l) ==
    LET r == ParseHostname(buff, cursor, l)
    IN  IF r.err = "nil" /\ Len(r.hostname) > 0 /\ r.hostname[Len(r.hostname)] = ":"
        THEN [err |-> "nil", hostname |-> LocalHostname, cursor |-> cursor - 1]
        ELSE r

parseHeader3164(buff, cursor, l) ==
    LET afterHostname(t, h) ==
            [panic |-> FALSE, err |-> h.err, ts |-> t.ts, hostname |-> h.hostname,
             cursor |-> h.cursor]
        afterTimestamp(t) ==
            IF t.panic \/ t.err # "nil"
            THEN [panic |-> t.panic, err |-> t.err, ts |-> NoTime, hostname |-> <<>>,
                  cursor |-> t.cursor]
            ELSE afterHostname(t, parseHostname3164(buff, t.cursor, l))
    IN  afterTimestamp(parseTimestamp3164(buff, cursor, l))

\* index of the first ':' or ' ' at or after from, l when there is none
TagEnd(buff, from, l) ==
    IF \E i \in from .. (l - 1) : At(buff, i) \in {":", " "}
    THEN CHOOSE i \in from .. (l - 1) :
            At(buff, i) \in {":", " "} /\ \A k \in from .. (i - 1) : At(buff, k) \notin {":", " "}
    ELSE l

\* the slice end the loop leaves in tag: every '[' met before the end of the tag
\* overwrites it, the terminator sets it only when no '[' was met
TagCut(buff, from, e) ==
    IF \E i \in from .. (e - 1) : At(buff, i) = "["
    THEN CHOOSE i \in from .. (e - 1) :
            At(buff, i) = "[" /\ \A k \in (i + 1) .. (e - 1) : At(buff, k) # "["
    ELSE e

parseTag(buff, cursor, l) ==
    IF cursor > l THEN [panic |-> TRUE, tag |-> <<>>, cursor |-> cursor]
    ELSE LET e == TagEnd(buff, cursor, l)
         IN  IF e = l THEN [panic |-> FALSE, tag |-> <<>>, cursor |-> cursor]
             ELSE [panic |-> FALSE, tag |-> Slice(buff, cursor, TagCut(buff, cursor, e)),
                   cursor |-> IF e + 1 < l /\ At(buff, e + 1) = " " THEN e + 2 ELSE e + 1]

\* len(bytes.Trim(s, " "))
RECURSIVE TrimLeft(_)
TrimLeft(s) == IF s # <<>> /\ s[1] = " " THEN TrimLeft(Tail(s)) ELSE s

RECURSIVE TrimRight(_)
TrimRight(s) ==
    IF s # <<>> /\ s[Len(s)] = " " THEN TrimRight(SubSeq(s, 1, Len(s) - 1)) ELSE s

movePastContent(buff, cursor, l) ==
    IF cursor > l THEN cursor
    ELSE cursor + Len(TrimRight(TrimLeft(Slice(buff, cursor, l))))


\* ------------------------------------------- RFC 3164 vendor dialects
\* time.Parse's rule for a zone abbreviation in the place of MST
ValidZoneAbbr(z) == Len(z) = 3 \/ (Len(z) \in {4, 5} /\ z[Len(z)] = "T")

\* \w{3} \d{2} \d{2}:\d{2}:\d{2} at offset i
AsaShapeAt(s, i) ==
    /\ i + 15 <= Len(s)
    /\ \A k \in i .. (i + 2) : At(s, k) \in WordBytes
    /\ At(s, i + 3) = " " /\ AllDigits(s, i + 4, i + 6) /\ At(s, i + 6) = " "
    /\ AllDigits(s, i + 7, i + 9) /\ At(s, i + 9) = ":"
    /\ AllDigits(s, i + 10, i + 12) /\ At(s, i + 12) = ":"
    /\ AllDigits(s, i + 13, i + 15)

\* end of the run [A-Z]+ that starts at i and is followed by a space, or -1
ZoneRunEnd(s, i) ==
    IF \E e \in (i + 1) .. (Len(s) - 1) :
            (\A k \in i .. (e - 1) : At(s, k) \in Upper) /\ At(s, e) = " "
    THEN CHOOSE e \in (i + 1) .. (Len(s) - 1) :
            (\A k \in i .. (e - 1) : At(s, k) \in Upper) /\ At(s, e) = " "
    ELSE -1

\* group 1 of CiscoASATimestampRePattern on buff, <<>> when it takes no part
CiscoASACapture(buff) ==
    LET i == PriPrefixEnd(buff) + 1
    IN  IF PriPrefixEnd(buff) = -1 \/ i > Len(buff) \/ At(buff, i - 1) # ":" THEN <<>>
        ELSE IF ~AsaShapeAt(buff, i) \/ i + 15 >= Len(buff) \/ At(buff, i + 15) # " "
             THEN <<>>
        ELSE IF ZoneRunEnd(buff, i + 16) # -1 THEN Slice(buff, i, ZoneRunEnd(buff, i + 16))
        ELSE Slice(buff, i, i + 15)

\* layouts "Jan 02 15:04:05 MST" and "Jan 02 15:04:05" on a captured stamp
MatchAsaStamp(t) ==
    /\ Len(t) >= 15
    /\ MonthOf(SubSeq(t, 1, 3)) # 0
    /\ Atoi(SubSeq(t, 5, 6)) >= 1
    /\ Atoi(SubSeq(t, 5, 6)) <= DaysIn(MonthOf(SubSeq(t, 1, 3)), 0)
    /\ ClockAt(t, 7)
    /\ (Len(t) > 15 => ValidZoneAbbr(SubSeq(t, 17, Len(t))))

parseCiscoASAHeader(buff) ==
    LET t == CiscoASACapture(buff)
    IN  IF t = <<>> THEN [err |-> "nil", ts |-> Now, hostname |-> <<>>]
        ELSE IF MatchAsaStamp(t)
             THEN [err |-> "nil", ts |-> fixTimestampIfNeeded(StampTime(SubSeq(t, 1, 15))),
                   hostname |-> <<>>]
        ELSE [err |-> "ErrCiscoASATime", ts |-> NoTime, hostname |-> <<>>]

\* first index at or after from where pat starts and ok holds of the byte after it
RECURSIVE FindAfter(_, _, _, _)
FindAfter(buff, pat, from, good) ==
    IF from + Len(pat) >= Len(buff) THEN -1
    ELSE IF HasAt(buff, from, pat) /\ At(buff, from + Len(pat)) \in good THEN from
    ELSE FindAfter(buff, pat, from + 1, good)

\* end of the run of bytes of set that starts at i
RECURSIVE RunEnd(_, _, _)
RunEnd(buff, i, set) ==
    IF i < Len(buff) /\ At(buff, i) \in set THEN RunEnd(buff, i + 1, set) ELSE i

BytesOf(buff) == {buff[k] : k \in 1 .. Len(buff)}

\* group 1 of time="([^"]+)": the leftmost time=" that is followed by a byte
\* other than '"' and, later, by a closing '"'
RECURSIVE SonicWallTimeFrom(_, _)
SonicWallTimeFrom(buff, from) ==
    LET pat == <<"t", "i", "m", "e", "=", "\"">>
        i == FindAfter(buff, pat, from, BytesOf(buff) \ {"\""})
        e == RunEnd(buff, i + 6, BytesOf(buff) \ {"\""})
    IN  IF i = -1 THEN <<>>
        ELSE IF e < Len(buff) THEN Slice(buff, i + 6, e)
        ELSE SonicWallTimeFrom(buff, i + 1)

\* group 1 of fw=([0-9.]+)
SonicWallHostname(buff) ==
    LET i == FindAfter(buff, <<"f", "w", "=">>, 0, Digits \cup {"."})
    IN  IF i = -1 THEN <<>> ELSE Slice(buff, i + 3, RunEnd(buff, i + 3, Digits \cup {"."}))

\* layouts "2006-01-02 15:04:05 MST" and "2006-01-02 15:04:05"
MatchSonicWallStamp(t) ==
    /\ Len(t) >= 19 /\ DateAt(t, 0) /\ At(t, 10) = " " /\ ClockAt(t, 11)
    /\ (Len(t) > 19 => Len(t) > 20 /\ At(t, 19) = " "
                        /\ (\A k \in 20 .. (Len(t) - 1) : At(t, k) \in Upper)
                        /\ ValidZoneAbbr(SubSeq(t, 21, Len(t))))

parseSonicWallHeaderNoHost(buff) ==
    LET t == SonicWallTimeFrom(buff, 0)
    IN  IF MatchSonicWallStamp(t)
        THEN [err |-> "nil", ts |-> Now, hostname |-> <<>>]
        ELSE [err |-> "ErrSonicWallTime", ts |-> NoTime, hostname |-> <<>>]

parseSonicWallHeader(buff) ==
    LET t == SonicWallTimeFrom(buff, 0)
    IN  IF MatchSonicWallStamp(t)
        THEN [err |-> "nil",
              ts |-> Time(Atoi(Slice(t, 0, 4)), Atoi(Slice(t, 5, 7)), Atoi(Slice(t, 8, 10)),
                          Atoi(Slice(t, 11, 13)), Atoi(Slice(t, 14, 16)),
                          Atoi(Slice(t, 17, 19)), <<>>, 0),
              hostname |-> SonicWallHostname(buff)]
        ELSE [err |-> "ErrSonicWallTime", ts |-> NoTime, hostname |-> <<>>]

\* a <= b for digit strings of one length
RECURSIVE DigitsLE(_, _)
DigitsLE(a, b) ==
    IF a = <<>> THEN TRUE
    ELSE IF DigitVal(a[1]) # DigitVal(b[1]) THEN DigitVal(a[1]) < DigitVal(b[1])
    ELSE DigitsLE(Tail(a), Tail(b))

MaxInt64Digits == <<"9", "2", "2", "3", "3", "7", "2", "0", "3", "6", "8", "5", "4", "7",
                    "7", "5", "8", "0", "7">>

\* strconv.ParseInt(s, 10, 64) succeeds on a digit string
FitsInt64(d) ==
    /\ d # <<>>
    /\ LET n == TrimZeros(d) IN Len(n) < 19 \/ (Len(n) = 19 /\ DigitsLE(n, MaxInt64Digits))

\* group 1 of eventtime=(\d+)
FortiOSCapture(buff) ==
    LET i == FindAfter(buff, <<"e", "v", "e", "n", "t", "t", "i", "m", "e", "=">>, 0, Digits)
    IN  IF i = -1 THEN <<>> ELSE Slice(buff, i + 10, RunEnd(buff, i + 10, Digits))

\* time.Unix(n / 1e9, n % 1e9) of a nanosecond count given by its digits
UnixNanoTime(d) ==
    LET n == TrimZeros(d)
        pad == [k \in 1 .. 9 |-> IF k + Len(n) > 9 THEN n[k + Len(n) - 9] ELSE "0"]
    IN  [NoTime EXCEPT !.unix = IF Len(n) > 9 THEN SubSeq(n, 1, Len(n) - 9) ELSE <<"0">>,
                       !.frac = IF Len(n) > 9 THEN SubSeq(n, Len(n) - 8, Len(n)) ELSE pad]

parseFortiOSHeader(buff) ==
    LET d == FortiOSCapture(buff)
    IN  IF FitsInt64(d)
        THEN [err |-> "nil", ts |-> fixTimestampIfNeeded(UnixNanoTime(d)), hostname |-> <<>>]
        ELSE [err |-> "ErrFortiOSTime", ts |-> NoTime, hostname |-> <<>>]

parseCiscoASA_RFC5424(buff) ==
    LET t == CiscoIsoCapture(buff, TRUE)
    IN  IF t # <<>> /\ MatchRFC3339(t)
        THEN [err |-> "nil", ts |-> fixTimestampIfNeeded(RFC3339Time(t)), hostname |-> <<>>]
        ELSE [err |-> "ErrCiscoASARFC5424Time", ts |-> NoTime, hostname |-> <<>>]


\* --------------------------------------------------- RFC 3164 Parse, Dump
\* Parser.Dump of the RFC 3164 parser
Dump3164(pri, hdr, msg) ==
    [timestamp |-> hdr.ts, hostname |-> hdr.hostname, tag |-> msg.tag,
     content |-> msg.content, priority |-> pri.P, facility |-> pri.F, severity |-> pri.S]

\* the dialect header parser an error of parseTimestamp selects
DialectHeader(kind, buff) ==
    CASE kind = "ErrSonicOSFormat" -> parseSonicWallHeader(buff)
      [] kind = "ErrFortiOSFormat" -> parseFortiOSHeader(buff)
      [] kind = "ErrCiscoASAFormat" -> parseCiscoASAHeader(buff)
      [] kind = "ErrCiscoASARFC5424" -> parseCiscoASA_RFC5424(buff)
      [] OTHER -> [err |-> kind, ts |-> NoTime, hostname |-> <<>>]

parsemessage(buff, cursor, l) ==
    LET t == parseTag(buff, cursor, l)
    IN  [panic |-> t.panic, tag |-> t.tag, content |-> buff,
         cursor |-> IF t.panic THEN t.cursor ELSE movePastContent(buff, t.cursor, l)]

DefaultPriorityZero == newPriority(0)

\* RFC 3164 section 4.3.3: the priority of a message without a valid <PRI>
DefaultPriority == newPriority(13)

\* Parser.Parse of the RFC 3164 parser, with the record Dump gives afterwards:
\* panic is an index out of range, err the returned error ("nil" for none)
Parse3164(buff) ==
    LET l == Len(buff)
        start == [ts |-> Now, hostname |-> <<>>]
        whole == [tag |-> <<>>, content |-> buff]
        dead(c) == [panic |-> TRUE, err |-> "nil", cursor |-> c,
                    parts |-> Dump3164(newPriority(0), start, whole)]
        afterMessage(p, h, m) ==
            IF m.panic THEN dead(m.cursor)
            ELSE [panic |-> FALSE, err |-> "nil", cursor |-> m.cursor,
                  parts |-> Dump3164(p.pri, [ts |-> h.ts, hostname |-> h.hostname],
                                     [tag |-> m.tag, content |-> m.content])]
        afterDialect(p, h, d) ==
            IF d.err # "nil"
            THEN [panic |-> FALSE, err |-> d.err, cursor |-> p.cursor,
                  parts |-> Dump3164(newPriority(0), start, whole)]
            ELSE [panic |-> FALSE, err |-> "nil", cursor |-> h.cursor,
                  parts |-> Dump3164(p.pri, [ts |-> d.ts, hostname |-> d.hostname], whole)]
        afterHeader(p, h) ==
            IF h.panic THEN dead(h.cursor)
            ELSE IF h.err = "nil" THEN afterMessage(p, h, parsemessage(buff, h.cursor + 1, l))
            ELSE afterDialect(p, h, DialectHeader(h.err, buff))
        afterPriority(p) ==
            IF p.err # "nil"
            THEN [panic |-> FALSE, err |-> "nil", cursor |-> movePastContent(buff, 0, l),
                  parts |-> Dump3164(DefaultPriority, start, whole)]
            ELSE afterHeader(p, parseHeader3164(buff, p.cursor, l))
    IN  afterPriority(ParsePriority(buff, 0, l))

\* ------------------------------------------------------ RFC 5424 parser
\* syslogparser.ParseVersion: one to three digits, value 1..999, then a space;
\* the cursor is left on that space
ParseVersion(buff, cursor, l) ==
    LET e == RunEnd(buff, cursor, Digits)
    IN  IF cursor < l /\ e > cursor /\ e <= cursor + 3 /\ e < l /\ At(buff, e) = " "
           /\ Atoi(Slice(buff, cursor, e)) >= 1
        THEN [err |-> "nil", version |-> Atoi(Slice(buff, cursor, e)), cursor |-> e]
        ELSE [err |-> "ErrVersionNotFound", version |-> 0, cursor |-> cursor]

\* syslogparser.Parse2Digits: exactly two digits with a value in min..max
Parse2Digits(buff, cursor, l, min, max, e) ==
    IF cursor + 2 > l THEN [err |-> "ErrEOL", val |-> 0, cursor |-> cursor]
    ELSE IF AllDigits(buff, cursor, cursor + 2)
            /\ Atoi(Slice(buff, cursor, cursor + 2)) \in min .. max
         THEN [err |-> "nil", val |-> Atoi(Slice(buff, cursor, cursor + 2)),
               cursor |-> cursor + 2]
    ELSE [err |-> e, val |-> 0, cursor |-> cursor + 2]

isUnixTimestamp(buff, cursor, l) ==
    LET e == RunEnd(buff, cursor, Digits) IN e - cursor >= 10

\* strconv.ParseInt(s, 10, 64) succeeds: an optional sign, then digits in range
GoParseIntOK(s) ==
    LET d == IF s # <<>> /\ s[1] \in {"+", "-"} THEN Tail(s) ELSE s
    IN  d # <<>> /\ AllDigits(d, 0, Len(d)) /\ FitsInt64(d)

\* nine fraction digits of 0.<frac>, short fractions padded with zeros
NanoDigits(frac) == [k \in 1 .. 9 |-> IF k <= Len(frac) THEN frac[k] ELSE "0"]

parseUnixTimestamp(buff, cursor, l) ==
    LET dot == Index(Slice(buff, cursor, l), <<".">>)
        intPart == IF dot = -1 THEN Slice(buff, cursor, l) ELSE Slice(buff, cursor, cursor + dot)
        fracEnd == RunEnd(buff, cursor + dot + 1, Digits)
        frac == IF dot = -1 THEN <<>> ELSE Slice(buff, cursor + dot + 1, fracEnd)
    IN  [err |-> IF GoParseIntOK(intPart) THEN "nil" ELSE "ErrSyntax",
         ts |-> IF GoParseIntOK(intPart)
                THEN [NoTime EXCEPT !.unix = intPart,
                                    !.frac = IF frac = <<>> THEN <<>> ELSE NanoDigits(frac)]
                ELSE NoTime,
         cursor |-> IF dot = -1 THEN l ELSE fracEnd]

\* ciscoASA_RFC5424Format of the RFC 5424 package (no fraction)
checkCiscoASA_RFC5424_5424(buff) == CiscoIsoCapture(buff, FALSE) # <<>>

\* strconv.Atoi succeeds on a four byte year
YearOK(sub) ==
    \/ AllDigits(sub, 0, 4)
    \/ sub[1] \in {"+", "-"} /\ AllDigits(sub, 1, 4)

YearVal(sub) ==
    IF sub[1] = "-" THEN 0 - Atoi(Tail(sub))
    ELSE IF sub[1] = "+" THEN Atoi(Tail(sub)) ELSE Atoi(sub)

parseYear(buff, cursor, l) ==
    IF cursor + 4 > l THEN [err |-> "ErrEOL", val |-> 0, cursor |-> cursor]
    ELSE IF YearOK(Slice(buff, cursor, cursor + 4))
         THEN [err |-> "nil", val |-> YearVal(Slice(buff, cursor, cursor + 4)),
               cursor |-> cursor + 4]
    ELSE [err |-> IF checkCiscoASA_RFC5424_5424(buff) THEN "ErrCiscoASARFC5424"
                  ELSE "ErrYearInvalid",
          val |-> 0, cursor |-> cursor + 4]

parseFullDate(buff, cursor, l) ==
    LET fail(e, c) == [err |-> e, y |-> 0, mo |-> 0, d |-> 0, cursor |-> c]
        afterDay(y, mo, d) ==
            IF d.err # "nil" THEN fail(d.err, d.cursor)
            ELSE [err |-> "nil", y |-> y.val, mo |-> mo.val, d |-> d.val,
                  cursor |-> d.cursor]
        afterMonth(y, mo) ==
            IF mo.err # "nil" THEN fail(mo.err, mo.cursor)
            ELSE IF mo.cursor >= l \/ At(buff, mo.cursor) # "-"
                 THEN fail("ErrTimestampUnknownFormat", mo.cursor)
            ELSE afterDay(y, mo, Parse2Digits(buff, mo.cursor + 1, l, 1, 31, "ErrDayInvalid"))
        afterYear(y) ==
            IF y.err # "nil" THEN fail(y.err, y.cursor)
            ELSE IF y.cursor >= l \/ At(buff, y.cursor) # "-"
                 THEN fail("ErrTimestampUnknownFormat", y.cursor)
            ELSE afterMonth(y, Parse2Digits(buff, y.cursor + 1, l, 1, 12, "ErrMonthInvalid"))
    IN  afterYear(parseYear(buff, cursor, l))

getHourMinute(buff, cursor, l) ==
    LET fail(e, c) == [err |-> e, h |-> 0, mi |-> 0, cursor |-> c]
        afterMinute(h, mi) ==
            IF mi.err # "nil" THEN fail(mi.err, mi.cursor)
            ELSE [err |-> "nil", h |-> h.val, mi |-> mi.val, cursor |-> mi.cursor]
        afterHour(h) ==
            IF h.err # "nil" THEN fail(h.err, h.cursor)
            ELSE IF h.cursor >= l \/ At(buff, h.cursor) # ":"
                 THEN fail("ErrInvalidTimeFormat", h.cursor)
            ELSE afterMinute(h, Parse2Digits(buff, h.cursor + 1, l, 0, 59,
                                             "ErrMinuteInvalid"))
    IN  afterHour(Parse2Digits(buff, cursor, l, 0, 23, "ErrHourInvalid"))

\* at most six digits; fails, leaving the cursor, when there is none
parseSecFrac(buff, cursor, l) ==
    LET e == RunEnd(buff, cursor, Digits)
        to == IF e > cursor + 6 THEN cursor + 6 ELSE e
    IN  IF to = cursor THEN [err |-> "ErrSecFracInvalid", frac |-> <<>>, cursor |-> cursor]
        ELSE [err |-> "nil", frac |-> Slice(buff, cursor, to), cursor |-> to]

parsePartialTime(buff, cursor, l) ==
    LET fail(e, c) == [err |-> e, h |-> 0, mi |-> 0, s |-> 0, frac |-> <<>>, cursor |-> c]
        pt(hm, s, frac, c) == [err |-> "nil", h |-> hm.h, mi |-> hm.mi, s |-> s.val,
                               frac |-> frac, cursor |-> c]
        afterFrac(hm, s, f) == pt(hm, s, f.frac, f.cursor)
        afterSecond(hm, s) ==
            IF s.err # "nil" THEN fail(s.err, s.cursor)
            ELSE IF s.cursor >= l \/ At(buff, s.cursor) # "." THEN pt(hm, s, <<>>, s.cursor)
            ELSE afterFrac(hm, s, parseSecFrac(buff, s.cursor + 1, l))
        afterHourMinute(hm) ==
            IF hm.err # "nil" THEN fail(hm.err, hm.cursor)
            ELSE IF hm.cursor >= l \/ At(buff, hm.cursor) # ":"
                 THEN fail("ErrInvalidTimeFormat", hm.cursor)
            ELSE afterSecond(hm, Parse2Digits(buff, hm.cursor + 1, l, 0, 59,
                                              "ErrSecondInvalid"))
    IN  afterHourMinute(getHourMinute(buff, cursor, l))

parseNumericalTimeOffset(buff, cursor, l) ==
    LET afterHourMinute(hm) ==
            IF hm.err # "nil" THEN [err |-> hm.err, off |-> 0, cursor |-> hm.cursor]
            ELSE [err |-> "nil",
                  off |-> IF At(buff, cursor) = "-" THEN 0 - (60 * hm.h + hm.mi)
                          ELSE 60 * hm.h + hm.mi,
                  cursor |-> hm.cursor]
    IN  IF At(buff, cursor) \notin {"+", "-"}
        THEN [err |-> "ErrTimeZoneInvalid", off |-> 0, cursor |-> cursor]
        ELSE afterHourMinute(getHourMinute(buff, cursor + 1, l))

parseTimeOffset(buff, cursor, l) ==
    IF cursor >= l \/ At(buff, cursor) = "Z"
    THEN [err |-> "nil", off |-> 0, cursor |-> cursor + 1]
    ELSE parseNumericalTimeOffset(buff, cursor, l)

parseFullTime(buff, cursor, l) ==
    LET afterOffset(pt, z) ==
            [err |-> z.err, h |-> pt.h, mi |-> pt.mi, s |-> pt.s, frac |-> pt.frac,
             off |-> z.off, cursor |-> z.cursor]
        afterPartialTime(pt) ==
            IF pt.err # "nil"
            THEN [err |-> pt.err, h |-> 0, mi |-> 0, s |-> 0, frac |-> <<>>, off |-> 0,
                  cursor |-> pt.cursor]
            ELSE afterOffset(pt, parseTimeOffset(buff, pt.cursor, l))
    IN  afterPartialTime(parsePartialTime(buff, cursor, l))

\* Parser.parseTimestamp of the RFC 5424 parser; unix tells that the epoch form
\* was taken (the parser's isUnixTimestamp flag)
parseTimestamp5424(buff, cursor, l) ==
    LET r(e, ts, c, ux) == [err |-> e, ts |-> ts, cursor |-> c, unix |-> ux]
        afterUnix(u) == r(u.err, IF u.err = "nil" THEN u.ts ELSE Now, u.cursor, TRUE)
        afterCisco(fd, cisco) ==
            IF MatchRFC3339(cisco)
            THEN r("ErrCiscoASARFC5424", RFC3339Time(cisco), fd.cursor, FALSE)
            ELSE r("ErrCiscoASARFC5424Time", Now, fd.cursor, FALSE)
        afterFullTime(fd, ft) ==
            IF ft.err # "nil" THEN r("ErrTimestampUnknownFormat", Now, ft.cursor, FALSE)
            ELSE r("nil",
                   Time(fd.y, fd.mo, fd.d, ft.h, ft.mi, ft.s,
                        IF ft.frac = <<>> THEN <<>> ELSE NanoDigits(ft.frac), ft.off),
                   ft.cursor, FALSE)
        afterFullDate(fd) ==
            IF fd.err = "ErrCiscoASARFC5424" THEN afterCisco(fd, CiscoIsoCapture(buff, FALSE))
            ELSE IF fd.err # "nil" THEN r(fd.err, Now, fd.cursor, FALSE)
            ELSE IF fd.cursor >= l \/ At(buff, fd.cursor) # "T"
                 THEN r("ErrInvalidTimeFormat", Now, fd.cursor, FALSE)
            ELSE afterFullTime(fd, parseFullTime(buff, fd.cursor + 1, l))
    IN  IF cursor >= l THEN r("ErrInvalidTimeFormat", Now, cursor, FALSE)
        ELSE IF At(buff, cursor) = "-" THEN r("nil", Now, cursor + 1, FALSE)
        ELSE IF isUnixTimestamp(buff, cursor, l)
             THEN afterUnix(parseUnixTimestamp(buff, cursor, l))
        ELSE afterFullDate(parseFullDate(buff, cursor, l))

parseUpToLen(buff, cursor, l, maxLen, e) ==
    LET max == cursor + maxLen
        sp == IF cursor >= l THEN cursor ELSE NextSpace(buff, cursor, l)
    IN  IF cursor < l /\ sp < l /\ sp <= max
        THEN [err |-> "nil", val |-> Slice(buff, cursor, sp), cursor |-> sp]
        ELSE [err |-> e, val |-> <<>>,
              cursor |-> IF cursor >= l THEN cursor
                         ELSE IF sp > max THEN max ELSE l]

\* a faulty variant, which C29 must reject: the last such ']' is taken
SDEndLast(buff, from, l) ==
    IF \E k \in from .. (l - 1) :
            At(buff, k) = "]" /\ (k + 1 = l \/ At(buff, k + 1) = " ")
    THEN CHOOSE k \in from .. (l - 1) :
            /\ At(buff, k) = "]" /\ (k + 1 = l \/ At(buff, k + 1) = " ")
            /\ \A j \in (k + 1) .. (l - 1) :
                  ~(At(buff, j) = "]" /\ (j + 1 = l \/ At(buff, j + 1) = " "))
    ELSE -1

\* index of the first ']' at or after from that ends the buffer or precedes a space
SDEnd(buff, from, l) ==
    IF \E k \in from .. (l - 1) :
            At(buff, k) = "]" /\ (k + 1 = l \/ At(buff, k + 1) = " ")
    THEN CHOOSE k \in from .. (l - 1) :
            /\ At(buff, k) = "]" /\ (k + 1 = l \/ At(buff, k + 1) = " ")
            /\ \A j \in from .. (k - 1) :
                  ~(At(buff, j) = "]" /\ (j + 1 = l \/ At(buff, j + 1) = " "))
    ELSE -1

parseStructuredData(buff, cursor, l) ==
    IF cursor >= l THEN [err |-> "nil", sd |-> <<"-">>, cursor |-> cursor]
    ELSE IF At(buff, cursor) = "-" THEN [err |-> "nil", sd |-> <<"-">>, cursor |-> cursor + 1]
    ELSE IF At(buff, cursor) # "[" \/ SDEnd(buff, cursor, l) = -1
         THEN [err |-> "ErrNoStructuredData", sd |-> <<>>, cursor |-> cursor]
    ELSE [err |-> "nil", sd |-> Slice(buff, cursor, SDEnd(buff, cursor, l) + 1),
          cursor |-> SDEnd(buff, cursor, l) + 1]

EmptyHeader5424 ==
    [priority |-> newPriority(0), version |-> 0, timestamp |-> Now, hostname |-> <<>>,
     appName |-> <<>>, procId |-> <<>>, msgId |-> <<>>]

\* Parser.parseHeader of the RFC 5424 parser: hdr holds the fields filled so far
parseHeader5424(buff, l) ==
    LET r(e, hdr, c, ux) == [err |-> e, hdr |-> hdr, cursor |-> c, unix |-> ux]
        zero == [EmptyHeader5424 EXCEPT !.timestamp = NoTime]
        afterMsgId(hdr, ux, m) ==
            IF m.err # "nil" THEN r("nil", hdr, m.cursor, ux)
            ELSE r("nil", [hdr EXCEPT !.msgId = m.val], m.cursor + 1, ux)
        afterProcId(hdr, ux, pr) ==
            IF pr.err # "nil" THEN r("nil", hdr, pr.cursor, ux)
            ELSE afterMsgId([hdr EXCEPT !.procId = pr.val], ux,
                            parseUpToLen(buff, pr.cursor + 1, l, 32, "ErrInvalidMsgId"))
        afterAppName(hdr, ux, a) ==
            IF a.err # "nil" THEN r(a.err, hdr, a.cursor, ux)
            ELSE afterProcId([hdr EXCEPT !.appName = a.val], ux,
                             parseUpToLen(buff, a.cursor + 1, l, 128, "ErrInvalidProcId"))
        afterHostname(hdr, ux, h) ==
            IF h.err # "nil" THEN r(h.err, hdr, h.cursor, ux)
            ELSE afterAppName([hdr EXCEPT !.hostname = h.hostname], ux,
                              parseUpToLen(buff, h.cursor + 1, l, 48, "ErrInvalidAppName"))
        afterTimestamp(hdr, t) ==
            IF t.err = "ErrCiscoASARFC5424"
            THEN r(t.err, [hdr EXCEPT !.timestamp = t.ts], t.cursor, t.unix)
            ELSE IF t.err # "nil" THEN r(t.err, hdr, t.cursor, t.unix)
            ELSE afterHostname([hdr EXCEPT !.timestamp = t.ts], t.unix,
                               ParseHostname(buff, t.cursor + 1, l))
        afterVersion(hdr, v) ==
            IF v.err # "nil" THEN r(v.err, hdr, v.cursor, FALSE)
            ELSE afterTimestamp([hdr EXCEPT !.version = v.version],
                                parseTimestamp5424(buff, v.cursor + 1, l))
        afterPriority(p) ==
            IF p.err # "nil" THEN r(p.err, zero, p.cursor, FALSE)
            ELSE afterVersion([zero EXCEPT !.priority = p.pri],
                              ParseVersion(buff, p.cursor, l))
    IN  afterPriority(ParsePriority(buff, 0, l))

\* Parser.Dump of the RFC 5424 parser
Dump5424(hdr, sd, msg) ==
    [priority |-> hdr.priority.P, facility |-> hdr.priority.F, severity |-> hdr.priority.S,
     version |-> hdr.version, timestamp |-> hdr.timestamp, hostname |-> hdr.hostname,
     app_name |-> hdr.appName, proc_id |-> hdr.procId, msg_id |-> hdr.msgId,
     structured_data |-> sd, message |-> msg]

\* Parser.Parse of the RFC 5424 parser, with the record Dump gives afterwards
Parse5424(buff) ==
    LET r(e, hdr, s, c) == [panic |-> FALSE, err |-> e, cursor |-> c,
                            parts |-> Dump5424(hdr, s, buff)]
        afterStructuredData(h, sd) ==
            IF sd.err # "nil" THEN r(sd.err, h.hdr, <<>>, sd.cursor)
            ELSE r("nil", h.hdr, sd.sd, sd.cursor + 1)
        afterHeader(h) ==
            IF h.err = "ErrCiscoASARFC5424"
            THEN r("nil", [h.hdr EXCEPT !.version = 1], <<"-">>, h.cursor)
            ELSE IF h.err # "nil" THEN r(h.err, EmptyHeader5424, <<>>, h.cursor)
            ELSE IF h.unix THEN r("nil", h.hdr, <<"-">>, h.cursor)
            ELSE afterStructuredData(h, parseStructuredData(buff, h.cursor, Len(buff)))
    IN  afterHeader(parseHeader5424(buff, Len(buff)))

\* ------------------------------------------------------------- formats
Formats == {"RFC3164", "RFC5424", "RFC6587", "Automatic"}

\* format.Automatic: the byte after <PRI> is a digit followed by a space, or two
\* digits followed by a space, for RFC 5424; anything else is RFC 3164
AutomaticIs5424(line) ==
    LET p == ParsePriority(line, 0, Len(line))
        i == p.cursor
    IN  /\ p.err = "nil"
        /\ i + 1 < Len(line) /\ IsDigit(At(line, i))
        /\ \/ At(line, i + 1) = " "
           \/ i + 2 < Len(line) /\ IsDigit(At(line, i + 1)) /\ At(line, i + 2) = " "

\* Format.GetParser(line) followed by Parse and Dump
GetParser(f, line) ==
    IF f \in {"RFC5424", "RFC6587"} \/ (f = "Automatic" /\ AutomaticIs5424(line))
    THEN Parse5424(line)
    ELSE Parse3164(line)

\* Format.GetSplitFunc() # nil
HasSplitFunc(f) == f = "RFC6587"

\* does data begin with something that cannot be a decimal count followed by
\* a space: a byte that is no digit, or digits followed by another byte
BadCountNever(data) == FALSE

BadCount(data) ==
    LET bad(d) == d = 0 \/ (d < Len(data) /\ At(data, d) # " ")
    IN  data # <<>> /\ bad(RunEnd(data, 0, Digits))

rfc6587ScannerSplitKeepCount(data, atEOF) ==
    [err |-> "nil", token |-> data, advance |-> Len(data)]

\* the RFC 6587 split function, a bufio.SplitFunc: a decimal count, one space,
\* then that many bytes. advance = 0 with no error asks for more input.
rfc6587ScannerSplit(data, atEOF) ==
    LET more == [err |-> "nil", token |-> <<>>, advance |-> 0]
        fail == [err |-> "ErrFraming", token |-> <<>>, advance |-> 0]
        short == IF atEOF THEN fail ELSE more
        frame(d, n) ==
            IF d + 1 + n <= Len(data)
            THEN [err |-> "nil", token |-> Slice(data, d + 1, d + 1 + n),
                  advance |-> d + 1 + n]
            ELSE short
        count(d) == IF d = Len(data) THEN short ELSE frame(d, Atoi(Slice(data, 0, d)))
    IN  IF data = <<>> THEN more
        ELSE IF BadCount(data) THEN fail
        ELSE count(RunEnd(data, 0, Digits))

\* the split function as goParseDatagrams calls it: on a whole datagram, atEOF
RFC6587Split(data) == rfc6587ScannerSplit(data, TRUE)

\* ------------------------------------------------------- record assembly
\* Server.parser after Dump: the hostname the handler sees
AssembleHostname(f, hostname, client) ==
    IF hostname = <<>> /\ f \in {"RFC3164", "Automatic"}
    THEN IF Index(client, <<":">>) > 1 THEN Slice(client, 0, Index(client, <<":">>))
         ELSE client
    ELSE hostname

\* ------------------------------------------------------ receiver inputs
\* records a framer hands to a stream scan worker
Lines ==
    << <<>>,
       <<"<", "3", "4", ">">>,
       <<"<", "3", "4", ">", "1", " ", "-", " ", "h", " ", "a", " ", "p", " ", "m", " ",
         "-">> >>

\* datagrams as read from a packet connection
Datagrams ==
    << <<"\n">>,
       <<"<", "3", "4", ">", "\n">>,
       <<"4", " ", "<", "3", "4", ">">> >>

\* remote addresses of the peers
Clients == { <<"h", "1", ":", "5">> }

\* names a TLS peer-name extractor returns
PeerNames == {"cn"}


\* ------------------------------------------------------------ the receiver
MaxListeners == 1
MaxPacketConns == 1
MaxOptions == 1

VARIABLES format, handler, readTimeoutMilliseconds, tlsPeerNameFunc, datagramChannelSize,
          listeners, connections, doneTcp, datagramChannel, ErrChan, wait, datagramPool,
          acceptors, scanners, receivers, datagramParser,
          errOffered, errPending, made, lost, readErrors, inputs,
          bootRet, killRet, waitRet, crashed, fn

config == <<format, handler, readTimeoutMilliseconds, tlsPeerNameFunc, datagramChannelSize>>
transports == <<listeners, connections>>
channels == <<doneTcp, datagramChannel, ErrChan>>
workers == <<acceptors, scanners, receivers, datagramParser>>
errors == <<errOffered, errPending, readErrors>>
buffers == <<datagramPool, made, lost>>
calls == <<bootRet, killRet, waitRet>>
vars == <<config, transports, channels, workers, errors, buffers, calls, wait, inputs,
          crashed, fn>>

ErrKinds == {"parse", "close", "readbuf", "deadline", "read"}
NoMsg == [buf |-> 0, d |-> 0, n |-> 0, client |-> <<>>]

\* NewServer
Constructed ==
    /\ format = "nil" /\ handler = FALSE /\ readTimeoutMilliseconds = 0
    /\ tlsPeerNameFunc = TRUE
    /\ datagramChannelSize = datagramChannelBufferSize
    /\ listeners = <<>> /\ connections = <<>>
    /\ doneTcp = "nil"
    /\ datagramChannel = [state |-> "nil", cap |-> 0, q |-> <<>>]
    /\ ErrChan = "open"
    /\ wait = 0
    /\ datagramPool = {} /\ made = 0 /\ lost = {}
    /\ acceptors = <<>> /\ scanners = <<>> /\ receivers = <<>>
    /\ datagramParser = [pc |-> "none", msg |-> NoMsg, got |-> <<>>]
    /\ errOffered = [k \in ErrKinds |-> 0] /\ errPending = 0 /\ readErrors = 0
    /\ inputs = 0
    /\ bootRet = "none" /\ killRet = "none" /\ waitRet = FALSE
    /\ crashed = FALSE

Init == Constructed /\ fn = [op |-> "none"]

\* how many optional settings differ from what NewServer chose
Options ==
    (IF readTimeoutMilliseconds # 0 THEN 1 ELSE 0) + (IF tlsPeerNameFunc THEN 0 ELSE 1)
    + (IF datagramChannelSize # datagramChannelBufferSize THEN 1 ELSE 0)

Configuring == ~crashed /\ bootRet # "nil" /\ killRet = "none"
Running == ~crashed /\ bootRet = "nil"

\* one more input from the environment is allowed
Budget == inputs < MaxInputs

\* outcomes of a system call that seldom fails: an error is an input
CloseErrs == IF Budget THEN BOOLEAN ELSE {FALSE}

\* a faulty variant, which C5 must reject: the error is dropped
OfferNothing(kind) == UNCHANGED <<errOffered, errPending>>

\* go func() { s.ErrChan <- err }()
Offer(kind) ==
    /\ errOffered' = [errOffered EXCEPT ![kind] = @ + 1]
    /\ errPending' = errPending + 1

SetFormat(f) ==
    /\ Configuring /\ format = "nil"
    /\ format' = f
    /\ UNCHANGED <<handler, readTimeoutMilliseconds, tlsPeerNameFunc, datagramChannelSize,
                   transports, channels, workers, errors, buffers, calls, wait, inputs,
                   crashed, fn>>

SetHandler ==
    /\ Configuring /\ ~handler
    /\ handler' = TRUE
    /\ UNCHANGED <<format, readTimeoutMilliseconds, tlsPeerNameFunc, datagramChannelSize,
                   transports, channels, workers, errors, buffers, calls, wait, inputs,
                   crashed, fn>>

SetTimeout(milliseconds) ==
    /\ Configuring /\ Options < MaxOptions /\ readTimeoutMilliseconds = 0
    /\ readTimeoutMilliseconds' = milliseconds
    /\ UNCHANGED <<format, handler, tlsPeerNameFunc, datagramChannelSize,
                   transports, channels, workers, errors, buffers, calls, wait, inputs,
                   crashed, fn>>

SetTlsPeerNameFunc(f) ==
    /\ Configuring /\ Options < MaxOptions /\ tlsPeerNameFunc
    /\ tlsPeerNameFunc' = f
    /\ UNCHANGED <<format, handler, readTimeoutMilliseconds, datagramChannelSize,
                   transports, channels, workers, errors, buffers, calls, wait, inputs,
                   crashed, fn>>

SetDatagramChannelSize(size) ==
    /\ Configuring /\ Options < MaxOptions /\ datagramChannelSize = datagramChannelBufferSize
    /\ datagramChannelSize' = size
    /\ UNCHANGED <<format, handler, readTimeoutMilliseconds, tlsPeerNameFunc,
                   transports, channels, workers, errors, buffers, calls, wait, inputs,
                   crashed, fn>>

\* ListenUDP and ListenUnixgram differ in the socket only; rbErr is the outcome
\* of SetReadBuffer
ListenPacket(rbErr) ==
    /\ Configuring /\ Len(connections) < MaxPacketConns
    /\ connections' = Append(connections, [closed |-> FALSE])
    /\ IF rbErr THEN Offer("readbuf") /\ inputs' = inputs + 1
       ELSE UNCHANGED <<errOffered, errPending, inputs>>
    /\ UNCHANGED <<config, listeners, channels, workers, readErrors, buffers, calls, wait,
                   crashed, fn>>

ListenUDP == \E rbErr \in CloseErrs : ListenPacket(rbErr)

ListenUnixgram == \E rbErr \in CloseErrs : ListenPacket(rbErr)

ListenStream(tls) ==
    /\ Configuring /\ Len(listeners) < MaxListeners
    /\ doneTcp' = "open"
    /\ listeners' = Append(listeners, [tls |-> tls, closed |-> FALSE])
    /\ UNCHANGED <<config, connections, datagramChannel, ErrChan, workers, errors, buffers,
                   calls, wait, inputs, crashed, fn>>

ListenTCP == ListenStream(FALSE)

ListenTCPTLS == ListenStream(TRUE)

\* a faulty variant, which C3 must reject: the handler is not looked at
BootCheckFormatOnly == IF format = "nil" THEN "format" ELSE "nil"

\* the two checks Boot makes before it starts anything
BootCheck == IF format = "nil" THEN "format" ELSE IF ~handler THEN "handler" ELSE "nil"

Boot ==
    /\ Configuring
    /\ IF BootCheck # "nil"
       THEN /\ bootRet' = "err"
            /\ UNCHANGED <<datagramChannel, workers, wait>>
       ELSE /\ bootRet' = "nil"
            /\ acceptors' = [i \in 1..Len(listeners) |-> "check"]
            /\ receivers' = [j \in 1..Len(connections) |->
                                [pc |-> "get", buf |-> 0, msg |-> NoMsg]]
            /\ IF Len(connections) > 0
               THEN /\ datagramChannel' = [state |-> "open", cap |-> datagramChannelSize,
                                           q |-> <<>>]
                    /\ datagramParser' = [datagramParser EXCEPT !.pc = "recv"]
               ELSE UNCHANGED <<datagramChannel, datagramParser>>
            /\ wait' = wait + Len(listeners) + Len(connections)
                            + (IF Len(connections) > 0 THEN 1 ELSE 0)
            /\ UNCHANGED scanners
    /\ UNCHANGED <<config, transports, doneTcp, ErrChan, errors, buffers, killRet, waitRet,
                   inputs, crashed, fn>>


\* what Format.GetParser(line), Parse and Dump give for each record a framer
\* can hand over
Parsed == [f \in Formats |-> [rec \in 1..Len(Lines) |-> GetParser(f, Lines[rec])]]

\* Server.parser on a line of length n whose parse outcome is r: the record the
\* handler receives
parser(r, n, client, tlsPeer) ==
    [panic |-> r.panic, err |-> r.err,
     entry |-> [len |-> n, err |-> r.err, client |-> client,
                hostname |-> AssembleHostname(format, r.parts.hostname, client),
                tls_peer |-> tlsPeer]]

\* ---- goAcceptConnection
AcceptCheck(i) ==
    /\ Running /\ acceptors[i] = "check"
    /\ IF doneTcp = "closed"
       THEN acceptors' = [acceptors EXCEPT ![i] = "done"] /\ wait' = wait - 1
       ELSE acceptors' = [acceptors EXCEPT ![i] = "accept"] /\ UNCHANGED wait
    /\ UNCHANGED <<config, transports, channels, scanners, receivers, datagramParser,
                   errors, buffers, calls, inputs, crashed, fn>>

\* listener.Accept() fails once the listener is closed
AcceptError(i) ==
    /\ Running /\ acceptors[i] = "accept" /\ listeners[i].closed
    /\ acceptors' = [acceptors EXCEPT ![i] = "check"]
    /\ UNCHANGED <<config, transports, channels, scanners, receivers, datagramParser,
                   errors, buffers, calls, wait, inputs, crashed, fn>>

\* a faulty variant, which C7 must reject: the extractor's verdict is ignored
PeerAdmittedUnnamed(tls, hs, ok) == ~tls \/ hs

\* goScanConnection: whether the connection gets a scan worker
PeerAdmitted(tls, hs, ok) == ~tls \/ (hs /\ (~tlsPeerNameFunc \/ ok))

\* goScanConnection: whether the peer-name extractor ran, and what it said
Extractor(tls, hs, ok) ==
    IF tls /\ hs /\ tlsPeerNameFunc THEN (IF ok THEN "ok" ELSE "refused") ELSE "none"

\* goScanConnection: the tls_peer handed to the scan worker
PeerName(tls, hs, ok, name) == IF tls /\ hs /\ tlsPeerNameFunc /\ ok THEN name ELSE ""

\* listener.Accept() returns a connection; goScanConnection runs on it
Accept(i, client, hs, ok, name, cerr) ==
    /\ Running /\ acceptors[i] = "accept" /\ ~listeners[i].closed
    /\ Len(scanners) < MaxStreamConns
    /\ LET tls == listeners[i].tls
           admitted == PeerAdmitted(tls, hs, ok)
       IN  /\ scanners' = Append(scanners,
                  [tls |-> tls, client |-> client, hs |-> hs, ext |-> Extractor(tls, hs, ok),
                   tlsPeer |-> PeerName(tls, hs, ok, name),
                   in |-> <<>>, sent |-> <<>>, peer |-> "open",
                   pc |-> IF admitted THEN "check" ELSE "none",
                   closed |-> ~admitted, scanErr |-> "nil", got |-> <<>>])
           /\ wait' = IF admitted THEN wait + 1 ELSE wait
           /\ IF ~admitted /\ cerr
              THEN Offer("close") /\ inputs' = inputs + 1
              ELSE UNCHANGED <<errOffered, errPending, inputs>>
    /\ acceptors' = [acceptors EXCEPT ![i] = "check"]
    /\ UNCHANGED <<config, transports, channels, receivers, datagramParser, readErrors,
                   buffers, calls, crashed, fn>>

\* ---- scan
\* scanCloser.closer.Close() and s.wait.Done() at the end of scan
ScanClose(c, cause, cerr) ==
    /\ scanners' = [scanners EXCEPT ![c].pc = "done", ![c].closed = TRUE,
                                    ![c].scanErr = cause]
    /\ wait' = wait - 1
    /\ readErrors' = IF cause \in {"nil", "done"} THEN readErrors ELSE readErrors + 1
    /\ IF cerr
       THEN Offer("close") /\ inputs' = inputs + 1
       ELSE UNCHANGED <<errOffered, errPending, inputs>>

\* top of the scan loop: the shutdown signal, then the read deadline
ScanCheck(c, derr, cerr) ==
    /\ Running /\ scanners[c].pc = "check"
    /\ IF doneTcp = "closed"
       THEN ScanClose(c, "done", cerr)
       ELSE /\ scanners' = [scanners EXCEPT ![c].pc = "scan"]
            /\ IF readTimeoutMilliseconds > 0 /\ derr
               THEN Offer("deadline") /\ inputs' = inputs + 1
               ELSE UNCHANGED <<errOffered, errPending, inputs>>
            /\ UNCHANGED <<wait, readErrors>>
    /\ UNCHANGED <<config, transports, channels, acceptors, receivers, datagramParser,
                   buffers, calls, crashed, fn>>

\* a faulty variant, which C4 must reject: the newest record jumps the queue
ScanTokenNewest(in) == in[Len(in)]

\* scanCloser.Scan() returns the framer's next record
ScanToken(in) == Head(in)

\* scanCloser.Scan() = true, then s.parser on the record
ScanRecord(c) ==
    /\ Running /\ scanners[c].pc = "scan" /\ scanners[c].in # <<>>
    /\ LET handle(rec, p) ==
               IF p.panic
               THEN /\ scanners' = [scanners EXCEPT ![c].pc = "panic", ![c].in = Tail(@)]
                    /\ crashed' = TRUE
                    /\ UNCHANGED <<errOffered, errPending>>
               ELSE /\ scanners' = [scanners EXCEPT ![c].pc = "check", ![c].in = Tail(@),
                                       ![c].got = Append(@, [rec |-> rec] @@ p.entry)]
                    /\ IF p.err # "nil" THEN Offer("parse")
                       ELSE UNCHANGED <<errOffered, errPending>>
                    /\ UNCHANGED crashed
           scan(rec) ==
               handle(rec, parser(Parsed[format][rec], Len(Lines[rec]),
                                  scanners[c].client, scanners[c].tlsPeer))
       IN  scan(ScanToken(scanners[c].in))
    /\ UNCHANGED <<config, transports, channels, acceptors, receivers, datagramParser,
                   readErrors, buffers, calls, wait, inputs, fn>>

\* scanCloser.Scan() = false: end of stream, a failed read, or the read deadline
ScanEnd(c, cerr) ==
    /\ Running /\ scanners[c].pc = "scan" /\ scanners[c].in = <<>>
    /\ scanners[c].peer # "open" \/ readTimeoutMilliseconds > 0
    /\ ScanClose(c, CASE scanners[c].peer = "eof" -> "nil"
                      [] scanners[c].peer = "reset" -> "reset"
                      [] OTHER -> "timeout", cerr)
    /\ UNCHANGED <<config, transports, channels, acceptors, receivers, datagramParser,
                   buffers, calls, crashed, fn>>

\* the peer of a stream connection writes one record
PeerSend(c, rec) ==
    /\ Running /\ Budget
    /\ scanners[c].peer = "open" /\ ~scanners[c].closed
    /\ scanners' = [scanners EXCEPT ![c].in = Append(@, rec), ![c].sent = Append(@, rec)]
    /\ inputs' = inputs + 1
    /\ UNCHANGED <<config, transports, channels, acceptors, receivers, datagramParser,
                   errors, buffers, calls, wait, crashed, fn>>

\* the peer closes its end (eof) or the connection breaks (reset)
PeerClose(c, how) ==
    /\ Running /\ Budget
    /\ scanners[c].peer = "open" /\ ~scanners[c].closed
    /\ scanners' = [scanners EXCEPT ![c].peer = how]
    /\ inputs' = inputs + 1
    /\ UNCHANGED <<config, transports, channels, acceptors, receivers, datagramParser,
                   errors, buffers, calls, wait, crashed, fn>>


\* ---- goReceiveDatagrams
\* a faulty variant, which C26 must reject: the cut is at the first byte below 32
TrimLenFirst(d) ==
    LET ctl == {k \in 1..Len(d) : d[k] \in ControlBytes}
    IN  IF ctl = {} THEN Len(d) ELSE (CHOOSE k \in ctl : \A m \in ctl : k <= m) - 1

\* the length left after trailing bytes below 32 are trimmed
TrimLen(d) ==
    LET keep == {k \in 1..Len(d) : d[k] \notin ControlBytes}
    IN  IF keep = {} THEN 0 ELSE CHOOSE k \in keep : \A m \in keep : m <= k

\* a faulty variant, which C23 must reject: the buffer handed out stays in the pool
RecvGetKeep(j) ==
    /\ Running /\ receivers[j].pc = "get"
    /\ IF datagramPool = {}
       THEN /\ made' = made + 1
            /\ receivers' = [receivers EXCEPT ![j].pc = "read", ![j].buf = made + 1]
       ELSE \E b \in datagramPool :
               /\ receivers' = [receivers EXCEPT ![j].pc = "read", ![j].buf = b]
               /\ UNCHANGED made
    /\ UNCHANGED <<config, transports, channels, acceptors, scanners, datagramParser,
                   errors, datagramPool, lost, calls, wait, inputs, crashed, fn>>

\* s.datagramPool.Get(): a pooled buffer, or a new one when the pool is empty
RecvGet(j) ==
    /\ Running /\ receivers[j].pc = "get"
    /\ IF datagramPool = {}
       THEN /\ made' = made + 1
            /\ receivers' = [receivers EXCEPT ![j].pc = "read", ![j].buf = made + 1]
            /\ UNCHANGED datagramPool
       ELSE \E b \in datagramPool :
               /\ datagramPool' = datagramPool \ {b}
               /\ receivers' = [receivers EXCEPT ![j].pc = "read", ![j].buf = b]
               /\ UNCHANGED made
    /\ UNCHANGED <<config, transports, channels, acceptors, scanners, datagramParser,
                   errors, lost, calls, wait, inputs, crashed, fn>>

\* packetconn.ReadFrom returns datagram d from addr
RecvDatagram(j, d, addr) ==
    /\ Running /\ Budget
    /\ receivers[j].pc = "read" /\ ~connections[j].closed
    /\ LET n == TrimLen(Datagrams[d])
           buf == receivers[j].buf
       IN  IF n > 0
           THEN /\ receivers' = [receivers EXCEPT ![j].pc = "send", ![j].buf = 0,
                                     ![j].msg = [buf |-> buf, d |-> d, n |-> n,
                                                 client |-> addr]]
                /\ UNCHANGED lost
           ELSE /\ receivers' = [receivers EXCEPT ![j].pc = "get", ![j].buf = 0]
                /\ lost' = lost \cup {buf}
    /\ inputs' = inputs + 1
    /\ UNCHANGED <<config, transports, channels, acceptors, scanners, datagramParser,
                   errors, datagramPool, made, calls, wait, crashed, fn>>

\* packetconn.ReadFrom fails: for good once the connection is closed (the worker
\* returns), or for a moment (the worker sleeps and loops)
RecvError(j) ==
    /\ Running /\ receivers[j].pc = "read"
    /\ IF connections[j].closed
       THEN /\ receivers' = [receivers EXCEPT ![j].pc = "done", ![j].buf = 0]
            /\ wait' = wait - 1
            /\ UNCHANGED inputs
       ELSE /\ Budget
            /\ receivers' = [receivers EXCEPT ![j].pc = "get", ![j].buf = 0]
            /\ inputs' = inputs + 1
            /\ UNCHANGED wait
    /\ lost' = lost \cup {receivers[j].buf}
    /\ readErrors' = readErrors + 1
    /\ UNCHANGED <<config, transports, channels, acceptors, scanners, datagramParser,
                   errOffered, errPending, datagramPool, made, calls, crashed, fn>>

\* s.datagramChannel <- msg: blocks while the queue is full, panics once it is closed
RecvSend(j) ==
    /\ Running /\ receivers[j].pc = "send"
    /\ IF datagramChannel.state = "closed"
       THEN /\ receivers' = [receivers EXCEPT ![j].pc = "panic"]
            /\ crashed' = TRUE
            /\ UNCHANGED datagramChannel
       ELSE /\ Len(datagramChannel.q) < datagramChannel.cap
            /\ datagramChannel' = [datagramChannel EXCEPT !.q = Append(@, receivers[j].msg)]
            /\ receivers' = [receivers EXCEPT ![j].pc = "get", ![j].msg = NoMsg]
            /\ UNCHANGED crashed
    /\ UNCHANGED <<config, transports, doneTcp, ErrChan, acceptors, scanners,
                   datagramParser, errors, buffers, calls, wait, inputs, fn>>

\* ---- goParseDatagrams
\* msg, ok := <-s.datagramChannel
ParseReceive ==
    /\ Running /\ datagramParser.pc = "recv"
    /\ IF datagramChannel.q # <<>>
       THEN /\ datagramParser' = [datagramParser EXCEPT !.pc = "parse",
                                      !.msg = Head(datagramChannel.q)]
            /\ datagramChannel' = [datagramChannel EXCEPT !.q = Tail(@)]
            /\ UNCHANGED wait
       ELSE /\ datagramChannel.state = "closed"
            /\ datagramParser' = [datagramParser EXCEPT !.pc = "done"]
            /\ wait' = wait - 1
            /\ UNCHANGED datagramChannel
    /\ UNCHANGED <<config, transports, doneTcp, ErrChan, acceptors, scanners, receivers,
                   errors, buffers, calls, inputs, crashed, fn>>

\* the record goParseDatagrams hands to s.parser: the payload, or the framer's
\* token; ok = FALSE when the framer rejects the payload
DatagramToken(f, payload) ==
    IF HasSplitFunc(f)
    THEN [ok |-> RFC6587Split(payload).err = "nil", line |-> RFC6587Split(payload).token]
    ELSE [ok |-> TRUE, line |-> payload]

\* the token of each datagram after trimming, and its parse outcome
ParsedDatagram ==
    [f \in Formats |-> [d \in 1..Len(Datagrams) |->
        LET tok == DatagramToken(f, SubSeq(Datagrams[d], 1, TrimLen(Datagrams[d])))
        IN  [ok |-> tok.ok, n |-> Len(tok.line), r |-> GetParser(f, tok.line)]]]

\* frame, parse and handle the payload, then s.datagramPool.Put
ParseDatagram ==
    /\ Running /\ datagramParser.pc = "parse"
    /\ LET handle(msg, ok, p) ==
               IF ok /\ p.panic
               THEN /\ datagramParser' = [datagramParser EXCEPT !.pc = "panic"]
                    /\ crashed' = TRUE
                    /\ UNCHANGED <<errOffered, errPending, datagramPool>>
               ELSE /\ datagramParser' = [datagramParser EXCEPT !.pc = "recv",
                           !.msg = NoMsg,
                           !.got = IF ok THEN Append(@, [rec |-> msg.d] @@ p.entry) ELSE @]
                    /\ IF ok /\ p.err # "nil" THEN Offer("parse")
                       ELSE UNCHANGED <<errOffered, errPending>>
                    /\ datagramPool' = datagramPool \cup {msg.buf}
                    /\ UNCHANGED crashed
           frame(msg, tok) == handle(msg, tok.ok, parser(tok.r, tok.n, msg.client, ""))
       IN  frame(datagramParser.msg, ParsedDatagram[format][datagramParser.msg.d])
    /\ UNCHANGED <<config, transports, channels, acceptors, scanners, receivers,
                   readErrors, made, lost, calls, wait, inputs, fn>>

\* ---- the error stream
\* the application receives one error from ErrChan
ErrReceive ==
    /\ Running \/ Configuring
    /\ ErrChan = "open" /\ errPending > 0
    /\ errPending' = errPending - 1
    /\ UNCHANGED <<config, transports, channels, workers, errOffered, readErrors, buffers,
                   calls, wait, inputs, crashed, fn>>

\* an error-sender goroutine finds ErrChan closed: send on closed channel
ErrSendPanic ==
    /\ Running /\ ErrChan = "closed" /\ errPending > 0
    /\ crashed' = TRUE
    /\ UNCHANGED <<config, transports, channels, workers, errors, buffers, calls, wait,
                   inputs, fn>>

\* ---- Kill and Wait
\* a faulty variant, which C25 must reject: a failed Close does not stop Kill
\* from closing the channels
KillThrough(failAt) ==
    /\ Running /\ killRet = "none"
    /\ failAt <= Len(connections) + Len(listeners)
    /\ LET nC == Len(connections)
           lim == IF failAt = 0 THEN nC + Len(listeners) ELSE failAt - 1
       IN  /\ connections' = [j \in 1..nC |->
                                 IF j <= lim THEN [connections[j] EXCEPT !.closed = TRUE]
                                 ELSE connections[j]]
           /\ listeners' = [i \in 1..Len(listeners) |->
                               IF nC + i <= lim THEN [listeners[i] EXCEPT !.closed = TRUE]
                               ELSE listeners[i]]
    /\ killRet' = IF failAt # 0 THEN "err" ELSE "nil"
    /\ doneTcp' = IF doneTcp # "nil" THEN "closed" ELSE doneTcp
    /\ datagramChannel' = IF datagramChannel.state # "nil"
                          THEN [datagramChannel EXCEPT !.state = "closed"]
                          ELSE datagramChannel
    /\ ErrChan' = "closed"
    /\ UNCHANGED <<config, workers, errors, buffers, bootRet, waitRet, wait, inputs,
                   crashed, fn>>

\* failAt = 0: every Close succeeds; else the failAt-th transport's Close fails
\* (packet connections first, then listeners)
Kill(failAt) ==
    /\ Running /\ killRet = "none"
    /\ failAt <= Len(connections) + Len(listeners)
    /\ LET nC == Len(connections)
           lim == IF failAt = 0 THEN nC + Len(listeners) ELSE failAt - 1
       IN  /\ connections' = [j \in 1..nC |->
                                 IF j <= lim THEN [connections[j] EXCEPT !.closed = TRUE]
                                 ELSE connections[j]]
           /\ listeners' = [i \in 1..Len(listeners) |->
                               IF nC + i <= lim THEN [listeners[i] EXCEPT !.closed = TRUE]
                               ELSE listeners[i]]
    /\ IF failAt # 0
       THEN killRet' = "err" /\ UNCHANGED channels
       ELSE /\ killRet' = "nil"
            /\ doneTcp' = IF doneTcp # "nil" THEN "closed" ELSE doneTcp
            /\ datagramChannel' = IF datagramChannel.state # "nil"
                                  THEN [datagramChannel EXCEPT !.state = "closed"]
                                  ELSE datagramChannel
            /\ ErrChan' = "closed"
    /\ UNCHANGED <<config, workers, errors, buffers, bootRet, waitRet, wait, inputs,
                   crashed, fn>>

\* Wait returns: s.wait.Wait() with the counter at zero
Wait ==
    /\ Running /\ ~waitRet /\ wait = 0
    /\ waitRet' = TRUE
    /\ UNCHANGED <<config, transports, channels, workers, errors, buffers, bootRet, killRet,
                   wait, inputs, crashed, fn>>

Next ==
    \/ \E f \in Formats : SetFormat(f)
    \/ SetHandler
    \/ \E ms \in {1} : SetTimeout(ms)
    \/ \E f \in BOOLEAN : SetTlsPeerNameFunc(f)
    \/ \E size \in 1..MaxChannelSize : SetDatagramChannelSize(size)
    \/ ListenUDP
    \/ ListenUnixgram
    \/ ListenTCP
    \/ ListenTCPTLS
    \/ Boot
    \/ \E i \in 1..Len(acceptors) : AcceptCheck(i) \/ AcceptError(i)
    \/ \E i \in 1..Len(acceptors), client \in Clients, hs, ok \in BOOLEAN,
          name \in PeerNames, cerr \in CloseErrs :
          /\ listeners[i].tls \/ (hs /\ ok)
          /\ Accept(i, client, hs, ok, name, cerr)
    \/ \E c \in 1..Len(scanners), derr, cerr \in CloseErrs :
          ScanCheck(c, derr, cerr) \/ ScanEnd(c, cerr)
    \/ \E c \in 1..Len(scanners) : ScanRecord(c)
    \/ \E c \in 1..Len(scanners), rec \in 1..Len(Lines) : PeerSend(c, rec)
    \/ \E c \in 1..Len(scanners), how \in {"eof", "reset"} : PeerClose(c, how)
    \/ \E j \in 1..Len(receivers) : RecvGet(j) \/ RecvError(j) \/ RecvSend(j)
    \/ \E j \in 1..Len(receivers), d \in 1..Len(Datagrams), addr \in Clients :
          RecvDatagram(j, d, addr)
    \/ ParseReceive
    \/ ParseDatagram
    \/ ErrReceive
    \/ ErrSendPanic
    \/ \E failAt \in 0..(MaxListeners + MaxPacketConns) : Kill(failAt)
    \/ Wait

Spec == Init /\ [][Next]_vars


\* the steps the Go scheduler and the operating system take on their own: a
\* runnable goroutine runs, a read on a closed or expired connection returns
AcceptorStep(i) == i \in DOMAIN acceptors /\ (AcceptCheck(i) \/ AcceptError(i))

ScannerStep(c) ==
    c \in DOMAIN scanners /\ (ScanCheck(c, FALSE, FALSE) \/ ScanRecord(c) \/ ScanEnd(c, FALSE))

ReceiverStep(j) ==
    j \in DOMAIN receivers
    /\ (RecvGet(j) \/ (connections[j].closed /\ RecvError(j)) \/ RecvSend(j))

\* some worker can take a step without anything arriving from outside
WorkerStep ==
    \/ \E i \in 1..MaxListeners : AcceptorStep(i)
    \/ \E c \in 1..MaxStreamConns : ScannerStep(c)
    \/ \E j \in 1..MaxPacketConns : ReceiverStep(j)
    \/ ParseReceive \/ ParseDatagram \/ ErrSendPanic

\* ------------------------------------------------- hostname assembly alone
Hostnames == { <<>>, <<"h">> }

HostClients ==
    { <<>>, <<":">>, <<"a">>, <<":", "5">>, <<"a", ":">>, <<"a", "b">>, <<":", ":">>,
      <<"a", ":", "5">>, <<"a", "b", ":">>, <<"[", ":", ":", "1", "]", ":", "5">>,
      <<"h", "1", ":", "5">>, <<"a", "b", "c">> }

HostInit ==
    /\ Constructed
    /\ fn \in [op : {"hostname"}, f : Formats, hostname : Hostnames, client : HostClients,
               done : {FALSE}, out : {<<>>}]

\* the hostname step of Server.parser on one (format, parsed hostname, client)
ApplyHostname ==
    /\ fn.op = "hostname" /\ ~fn.done
    /\ fn' = [fn EXCEPT !.done = TRUE,
                        !.out = AssembleHostname(fn.f, fn.hostname, fn.client)]
    /\ UNCHANGED <<config, transports, channels, workers, errors, buffers, calls, wait,
                   inputs, crashed>>

HostSpec == HostInit /\ [][ApplyHostname]_vars

\* ------------------------------------------- the RFC 3164 parser alone
\* what stands in the place of <PRI>: nothing, valid, out of range, malformed
Pris3164 ==
    { <<>>,
      <<"<", "3", "4", ">">>,
      <<"<", "1", "9", "1", ">">>,
      <<"<", "1", "9", "2", ">">>,
      <<"<", "1", "a", ">">>,
      <<"<">>,
      <<"<", "0", "0", "3", "4", ">">> }

\* what follows: canonical stamps, vendor dialects, none of them
Bodies3164 ==
    { <<>>,
      <<"I", "N", "F", "O", " ", "x">>,
      <<"O", "c", "t", " ", "1", "1", " ", "2", "2", ":", "1", "4", ":", "1", "5", " ",
        "h", " ", "t", ":", " ", "c">>,
      <<"O", "c", "t", " ", "1", "1", " ", "2", "2", ":", "1", "4", ":", "1", "5", " ",
        "h", " ", "t", "[", "1", "]", ":", " ", "c">>,
      <<"2", "0", "1", "8", "-", "0", "6", "-", "2", "7", "T", "1", "2", ":", "1", "7",
        ":", "4", "6", "+", "0", "0", ":", "0", "0", " ", "h", " ", "t", ":", " ", "c">>,
      <<"t", "i", "m", "e", "=", "\"", "2", "0", "1", "6", "-", "0", "8", "-", "1", "9",
        " ", "1", "8", ":", "0", "5", ":", "4", "4", "\"", " ", "f", "w", "=", "1", ".", "2">>,
      <<"t", "i", "m", "e", "=", "\"", "2", "0", "1", "6", "-", "0", "8", "-", "1", "9",
        " ", "1", "8", ":", "0", "5", ":", "4", "4", "\"">>,
      <<"t", "i", "m", "e", "=", "\"", "x", "\"">>,
      <<"e", "v", "e", "n", "t", "t", "i", "m", "e", "=", "1", "7", "0", "6", "7">>,
      <<"e", "v", "e", "n", "t", "t", "i", "m", "e", "=", "x">>,
      <<":", "A", "p", "r", " ", "0", "4", " ", "1", "9", ":", "2", "8", ":", "0", "5",
        " ", "E", "D", "T", ":", " ", "x">>,
      <<":", "x">>,
      <<"2", "0", "1", "8", "-", "0", "6", "-", "2", "7", "T", "1", "2", ":", "1", "7",
        ":", "4", "6", "Z", " ", "a">>,
      <<"x", " ", "<", "1", ">", ":">>,
      <<"t", "i", "m", "e", "=", "\"", "2", "0", "1", "6", "-", "0", "8", "-", "1", "9",
        " ", "1", "8", ":", "0", "5", ":", "4", "4", "\"", " ", "f", "w", "=", "1", ".",
        "2", " ", "<", "1", ">", ":">>,
      <<"e", "v", "e", "n", "t", "t", "i", "m", "e", "=", "1", "7", "0", "6", "7", " ",
        "<", "1", ">", ":">> }

P3164Init ==
    /\ Constructed
    /\ \E p \in Pris3164 : \E b \in Bodies3164 :
          \/ fn = [op |-> "Parse3164", buff |-> p \o b, done |-> FALSE, out |-> <<>>]
          \/ /\ ParsePriority(p \o b, 0, Len(p \o b)).err = "nil"
             /\ fn = [op |-> "parseTimestamp", buff |-> p \o b, done |-> FALSE, out |-> <<>>]

\* Parser.parseTimestamp where Parse calls it: on a buffer whose <PRI> parsed,
\* with the cursor the priority parser left
ApplyParseTimestamp ==
    /\ fn.op = "parseTimestamp" /\ ~fn.done
    /\ fn' = [fn EXCEPT !.done = TRUE,
                        !.out = parseTimestamp3164(fn.buff,
                                    ParsePriority(fn.buff, 0, Len(fn.buff)).cursor,
                                    Len(fn.buff))]
    /\ UNCHANGED <<config, transports, channels, workers, errors, buffers, calls, wait,
                   inputs, crashed>>

\* Parser.Parse followed by Parser.Dump on one buffer
ApplyParse3164 ==
    /\ fn.op = "Parse3164" /\ ~fn.done
    /\ fn' = [fn EXCEPT !.done = TRUE, !.out = Parse3164(fn.buff)]
    /\ UNCHANGED <<config, transports, channels, workers, errors, buffers, calls, wait,
                   inputs, crashed>>

P3164Spec == P3164Init /\ [][ApplyParse3164 \/ ApplyParseTimestamp]_vars

\* ------------------------------------------- the RFC 6587 framer alone
\* frames a scanner reads in one run, and bytes one read returns at most
MaxFrames == 2
MaxRead == 3

\* messages a sender frames
FramedMsgs ==
    { <<>>,
      <<"a">>,
      <<"a", "b">>,
      <<"a", " ", "b">>,
      <<"a", "0", " ">>,
      <<"a", "1", " ", "b">>,
      <<"a", "1", "2">>,
      <<"I", " ", "a", "m", " ", "t", "e", "s", "t", " ", "2", ".">> }

\* fmt's %d of a count below 100
Itoa(n) ==
    LET digit(k) == CHOOSE c \in Digits : DigitVal(c) = k
    IN  IF n < 10 THEN <<digit(n)>> ELSE <<digit(n \div 10), digit(n % 10)>>

\* "<n> <m>" for each frame, concatenated
RECURSIVE Stream(_)
Stream(frames) ==
    IF frames = <<>> THEN <<>>
    ELSE Itoa(frames[1].n) \o <<" ">> \o frames[1].m \o Stream(Tail(frames))

\* a frame that declares the length of its message, and one that declares less
Canonical == {[n |-> Len(m), m |-> m] : m \in FramedMsgs}
Short == UNION {{[n |-> k, m |-> m] : k \in 0 .. (Len(m) - 1)} : m \in FramedMsgs}

FramerInputs ==
    {<<f>> : f \in Short} \cup UNION {[1 .. k -> Canonical] : k \in 0 .. MaxFrames}

\* bufio.NewScanner(reader) with Split(RFC6587.GetSplitFunc()): rest is what the
\* reader has not returned yet, buf the scanner's unconsumed bytes
FramerInit ==
    /\ Constructed
    /\ \E fs \in FramerInputs :
          fn = [op |-> "Scan", frames |-> fs, rest |-> Stream(fs), buf |-> <<>>,
                eof |-> FALSE, more |-> TRUE, waited |-> FALSE, tokens |-> <<>>,
                err |-> "nil", done |-> FALSE]

FramerIdle ==
    UNCHANGED <<config, transports, channels, workers, errors, buffers, calls, wait,
                inputs, crashed>>

\* Scan: the split function on the buffered bytes
FramerSplit ==
    /\ fn.op = "Scan" /\ ~fn.done /\ ~fn.more
    /\ LET after(r) ==
               IF r.err # "nil" THEN [fn EXCEPT !.err = r.err, !.done = TRUE]
               ELSE IF r.advance > 0
                    THEN [fn EXCEPT !.tokens = Append(@, r.token),
                                    !.buf = SubSeq(@, r.advance + 1, Len(@)),
                                    !.more = (Len(fn.buf) = r.advance /\ ~fn.eof)]
               ELSE IF fn.eof THEN [fn EXCEPT !.done = TRUE]
               ELSE [fn EXCEPT !.more = TRUE, !.waited = TRUE]
       IN  fn' = after(rfc6587ScannerSplit(fn.buf, fn.eof))
    /\ FramerIdle

\* Scan: one Read of the underlying reader returns k bytes
FramerRead(k) ==
    /\ fn.op = "Scan" /\ ~fn.done /\ fn.more /\ ~fn.eof
    /\ k <= Len(fn.rest)
    /\ fn' = [fn EXCEPT !.buf = @ \o SubSeq(fn.rest, 1, k),
                        !.rest = SubSeq(@, k + 1, Len(@)), !.more = FALSE]
    /\ FramerIdle

\* Scan: Read returns io.EOF
FramerEOF ==
    /\ fn.op = "Scan" /\ ~fn.done /\ fn.more /\ ~fn.eof
    /\ fn.rest = <<>>
    /\ fn' = [fn EXCEPT !.eof = TRUE, !.more = FALSE]
    /\ FramerIdle

FramerNext == FramerSplit \/ (\E k \in 1 .. MaxRead : FramerRead(k)) \/ FramerEOF

FramerSpec == FramerInit /\ [][FramerNext]_vars

\* ------------------------------------------- the RFC 5424 parser alone
\* n bytes 'x': a field of a given length
Run(n) == [k \in 1 .. n |-> "x"]

\* field values a sender builds a message from
Timestamps5424 ==
    { <<"-">>,
      <<"2", "0", "1", "8", "-", "0", "1", "-", "1", "2", "T", "2", "2", ":", "1", "4",
        ":", "1", "5", "Z">>,
      <<"2", "0", "1", "8", "-", "0", "1", "-", "1", "2", "T", "2", "2", ":", "1", "4",
        ":", "1", "5", ".", "0", "0", "3", "+", "0", "1", ":", "0", "0">>,
      <<"1", "7", "0", "1", "2", "3", "3", "3", "8", "0">>,
      <<"1", "7", "0", "1", "2", "3", "3", "3", "8", "0", ".", "2", "8", "5">> }

Hostnames5424 == { <<"-">>,
      <<"m", "y", ".", "h", "o", "s", "t">> }

AppNames5424 == { <<"-">>,
      <<"a", "p", "p">> }

ProcIds5424 == { <<"-">>,
      <<"p", "r", "o", "c">> } \cup {Run(128), Run(129)}

MsgIds5424 == { <<"-">>,
      <<"I", "D", "4", "7">> } \cup {Run(32), Run(33)}

StructuredData5424 ==
    { <<"-">>,
      <<"[", "a", " ", "b", "=", "\"", "c", "\"", "]">>,
      <<"[", "a", " ", "b", "=", "\"", "x", "]", "y", "\"", "]", "[", "c", "]">>,
      <<"[", "a", " ", "b", "=", "\"", "x", "]", " ", "y", "\"", "]">> }

\* where the buffer ends: after the whole message, after PROC-ID, after MSG-ID
Cuts5424 == {"full", "procid", "msgid"}

\* "<34>1 TIMESTAMP HOSTNAME APP-NAME PROCID MSGID STRUCTURED-DATA MSG"
Message5424(f) ==
    LET sp == <<" ">>
        toProc == <<"<", "3", "4", ">", "1", " ">> \o f.ts \o sp \o f.host \o sp
                     \o f.app \o sp \o f.proc
    IN  IF f.cut = "procid" THEN toProc
        ELSE IF f.cut = "msgid" THEN toProc \o sp \o f.msgid
        ELSE toProc \o sp \o f.msgid \o sp \o f.sd \o sp \o <<"m">>

P5424Init ==
    /\ Constructed
    /\ \E f \in [ts : Timestamps5424, host : Hostnames5424, app : AppNames5424,
                 proc : ProcIds5424, msgid : MsgIds5424, sd : StructuredData5424,
                 cut : Cuts5424] :
          fn = [op |-> "Parse5424", fields |-> f, buff |-> Message5424(f),
                done |-> FALSE, out |-> <<>>]

\* Parser.Parse followed by Parser.Dump on one buffer
ApplyParse5424 ==
    /\ fn.op = "Parse5424" /\ ~fn.done
    /\ fn' = [fn EXCEPT !.done = TRUE, !.out = Parse5424(fn.buff)]
    /\ UNCHANGED <<config, transports, channels, workers, errors, buffers, calls, wait,
                   inputs, crashed>>

P5424Spec == P5424Init /\ [][ApplyParse5424]_vars

\* --------------------------------------- one datagram through the receive loop
MaxDatagramLen == 4

\* bytes a datagram is made of: a letter, a space (byte 32), and bytes below 32
DatagramBytes == {"a", " "} \cup ControlBytes

RECURSIVE BytesUpTo(_)
BytesUpTo(n) ==
    IF n = 0 THEN {<<>>}
    ELSE BytesUpTo(n - 1)
            \cup {Append(s, c) : s \in {t \in BytesUpTo(n - 1) : Len(t) = n - 1},
                                 c \in DatagramBytes}

\* packetconn.ReadFrom has returned the datagram d without error
ReceiveInit ==
    /\ Constructed
    /\ \E d \in BytesUpTo(MaxDatagramLen) :
          fn = [op |-> "receive", d |-> d, done |-> FALSE, queued |-> FALSE,
                payload |-> <<>>]

\* the body of the receive loop after the read: trim, then queue buf[:n] if n > 0
ApplyReceive ==
    /\ fn.op = "receive" /\ ~fn.done
    /\ LET after(n) == fn' = [fn EXCEPT !.done = TRUE, !.queued = n > 0,
                                        !.payload = SubSeq(fn.d, 1, n)]
       IN  after(TrimLen(fn.d))
    /\ UNCHANGED <<config, transports, channels, workers, errors, buffers, calls, wait,
                   inputs, crashed>>

ReceiveSpec == ReceiveInit /\ [][ApplyReceive]_vars

\* ------------------------------------------- the RFC 3164 tag parser alone
MaxTagLen == 4

\* bytes a tag field is made of
TagBytes == {"a", "[", ":", " "}

RECURSIVE TagBuffers(_)
TagBuffers(n) ==
    IF n = 0 THEN {<<>>}
    ELSE TagBuffers(n - 1)
            \cup {Append(s, c) : s \in {t \in TagBuffers(n - 1) : Len(t) = n - 1},
                                 c \in TagBytes}

\* a parser on buff whose cursor stands where the tag begins
TagInit ==
    /\ Constructed
    /\ \E b \in TagBuffers(MaxTagLen) : \E c \in 0 .. 1 :
          /\ c <= Len(b)
          /\ fn = [op |-> "parseTag", buff |-> b, cursor |-> c, done |-> FALSE, out |-> <<>>]

\* Parser.parseTag at that cursor
ApplyParseTag ==
    /\ fn.op = "parseTag" /\ ~fn.done
    /\ fn' = [fn EXCEPT !.done = TRUE, !.out = parseTag(fn.buff, fn.cursor, Len(fn.buff))]
    /\ UNCHANGED <<config, transports, channels, workers, errors, buffers, calls, wait,
                   inputs, crashed>>

TagSpec == TagInit /\ [][ApplyParseTag]_vars

\* ------------------------------ the RFC 3164 parser on canonical messages
\* timestamps a sender writes, each with the instant it denotes
Stamps3164 ==
    { [text |-> <<"O", "c", "t", " ", "1", "1", " ", "2", "2", ":", "1", "4", ":", "1", "5">>,
       at |-> Time(CurrentYear, 10, 11, 22, 14, 15, <<>>, 0)],
      [text |-> <<"2", "0", "1", "8", "-", "0", "1", "-", "1", "2", "T", "2", "2", ":", "1", "4", ":", "1", "5", "+", "0", "0", ":", "0", "0">>,
       at |-> Time(2018, 1, 12, 22, 14, 15, <<>>, 0)],
      [text |-> <<"2", "0", "1", "8", "-", "0", "1", "-", "1", "2", "T", "2", "2", ":", "1", "4", ":", "1", "5", "-", "0", "5", ":", "3", "0">>,
       at |-> Time(2018, 1, 12, 22, 14, 15, <<>>, -330)],
      [text |-> <<"2", "0", "1", "8", "-", "0", "1", "-", "1", "2", "T", "2", "2", ":", "1", "4", ":", "1", "5", "Z">>,
       at |-> Time(2018, 1, 12, 22, 14, 15, <<>>, 0)] }

\* "<PRI>TS HOST TAG: text", the tag with or without a "[pid]"
Message3164(f) ==
    f.pri \o f.ts.text \o <<" ">> \o f.host \o <<" ">> \o f.tag \o f.pid \o <<":", " ">>
        \o f.text

Canon3164Init ==
    /\ Constructed
    /\ \E f \in [pri : {<<"<", "3", "4", ">">>, <<"<", "1", "6", "5", ">">>}, ts : Stamps3164,
                 host : {<<"m", "y", "m", "a", "c", "h", "i", "n", "e">>, <<"h">>}, tag : {<<"a", "p", "p">>, <<"s", "u">>},
                 pid : {<<>>, <<"[", "1", "0", "1", "]">>}, text : {<<>>, <<"m", "s", "g">>, <<"a", " ", "b">>}] :
          fn = [op |-> "Parse3164", fields |-> f, buff |-> Message3164(f),
                done |-> FALSE, out |-> <<>>]

Canon3164Spec == Canon3164Init /\ [][ApplyParse3164]_vars

\* ----------------------------- the RFC 5424 structured-data parser alone
MaxSDLen == 4

\* bytes a structured-data field is made of
SDBytes == {"-", "[", "]", " ", "a"}

RECURSIVE SDBuffers(_)
SDBuffers(n) ==
    IF n = 0 THEN {<<>>}
    ELSE SDBuffers(n - 1)
            \cup {Append(s, c) : s \in {t \in SDBuffers(n - 1) : Len(t) = n - 1},
                                 c \in SDBytes}

\* a buffer and the cursor the header parser left, anywhere up to its end
SDInit ==
    /\ Constructed
    /\ \E b \in SDBuffers(MaxSDLen) : \E c \in 0 .. Len(b) :
          fn = [op |-> "parseStructuredData", buff |-> b, cursor |-> c, done |-> FALSE,
                out |-> <<>>]

\* parseStructuredData(buff, &cursor, l)
ApplyParseStructuredData ==
    /\ fn.op = "parseStructuredData" /\ ~fn.done
    /\ fn' = [fn EXCEPT !.done = TRUE,
                        !.out = parseStructuredData(fn.buff, fn.cursor, Len(fn.buff))]
    /\ UNCHANGED <<config, transports, channels, workers, errors, buffers, calls, wait,
                   inputs, crashed>>

SDSpec == SDInit /\ [][ApplyParseStructuredData]_vars

\* ------------------------------------------------------------------ claims
\* C1: after Kill has returned nil every worker eventually exits, so that the
\* WaitGroup counter reaches zero and Wait returns. For that, as long as a worker
\* is left (and the process has not crashed), some worker must be able to take a
\* step of its own: a state in which none can is one the receiver stays in for
\* ever unless a peer acts.
C1_WorkersExitAfterKill ==
    (killRet = "nil" /\ ~crashed /\ wait > 0) => ENABLED WorkerStep

\* C2: every record handed to the parse step has reached the handler exactly
\* once: no worker has taken a record (or a datagram) and ended without the
\* handler call.
C2_EveryRecordHandled ==
    /\ \A c \in DOMAIN scanners :
          Len(scanners[c].got) = Len(scanners[c].sent) - Len(scanners[c].in)
    /\ datagramParser.pc # "panic"

\* no worker has been started and no queue created
NothingStarted ==
    /\ acceptors = <<>> /\ scanners = <<>> /\ receivers = <<>>
    /\ datagramParser.pc = "none" /\ datagramChannel.state = "nil" /\ wait = 0

\* C3: Boot returns an error exactly when the format or the handler is unset,
\* and then has started no worker and created no queue; with both set it
\* returns nil.
C3_BootChecks ==
    /\ [](bootRet = "err" => NothingStarted)
    /\ [][bootRet' # bootRet =>
            /\ (bootRet' = "err") <=> (format = "nil" \/ ~handler)
            /\ (bootRet' = "nil") <=> (format # "nil" /\ handler)]_vars

C3_Witness ==
    /\ bootRet = "err" /\ format # "nil" /\ ~handler
    /\ Len(listeners) + Len(connections) > 0

Failed(got) == {k \in 1..Len(got) : got[k].err # "nil"}

\* the same, summed over the first n stream connections
RECURSIVE FailedOnStreams(_)
FailedOnStreams(n) ==
    IF n = 0 THEN 0 ELSE Cardinality(Failed(scanners[n].got)) + FailedOnStreams(n - 1)

\* C5: every record whose parse failed has reached the handler with the error
\* and the error has been offered to the error stream, whether or not anything
\* was received from it; the step leaves the scan worker at the top of its loop.
C5_ParseErrorOffered ==
    /\ [](errOffered["parse"] =
             Cardinality(Failed(datagramParser.got)) + FailedOnStreams(Len(scanners)))
    /\ [][\A c \in DOMAIN scanners :
             (c \in DOMAIN scanners' /\ Failed(scanners'[c].got) # Failed(scanners[c].got))
             => /\ scanners'[c].pc = "check"
                /\ errPending' = errPending + 1]_vars

C5_Witness ==
    /\ ErrChan = "open" /\ errPending = 2 /\ errOffered["parse"] = 2
    /\ \E c \in DOMAIN scanners : Cardinality(Failed(scanners[c].got)) = 2

\* C6: every read error on a transport has been offered to the error stream.
C6_ReadErrorsSurfaced == errOffered["read"] >= readErrors

\* C7: a TLS connection whose handshake failed or whose peer-name extractor
\* returned ok = false is closed, has no scan worker and has delivered no record;
\* when the extractor returned ok = true every record carries the returned name.
C7_TlsPeer ==
    \A c \in DOMAIN scanners :
        /\ (scanners[c].tls /\ (~scanners[c].hs \/ scanners[c].ext = "refused"))
           => /\ scanners[c].closed /\ scanners[c].pc = "none"
              /\ scanners[c].got = <<>>
        /\ scanners[c].ext = "ok"
           => /\ scanners[c].tlsPeer \in PeerNames
              /\ \A k \in 1..Len(scanners[c].got) :
                    scanners[c].got[k].tls_peer = scanners[c].tlsPeer

C7_Witness ==
    \E c \in DOMAIN scanners :
        /\ scanners[c].tls /\ scanners[c].hs /\ scanners[c].ext = "refused"
        /\ scanners[c].closed /\ scanners[c].pc = "none"

\* C8: every buffer a receive worker took from the pool is put back: none has
\* been dropped by the worker on its way round the loop.
C8_BuffersReturned == lost = {}

\* C9: the queue never holds more than its capacity, and a receive worker that
\* holds a payload while the queue is full stays as it is (same payload, no
\* further read) as long as the queue is full.
C9_QueueBound ==
    /\ [](/\ Len(datagramChannel.q) <= datagramChannel.cap
          /\ datagramChannel.state # "nil" => datagramChannel.cap = datagramChannelSize)
    /\ [][\A j \in DOMAIN receivers :
             (receivers[j].pc = "send" /\ Len(datagramChannel.q) = datagramChannel.cap)
             => receivers'[j] = receivers[j]]_vars

\* the part of client before its first ':', the whole of it when it has none
BeforeColon(client) ==
    IF Index(client, <<":">>) >= 0 THEN Slice(client, 0, Index(client, <<":">>)) ELSE client

\* C10: with RFC3164 or Automatic and an empty parsed hostname the hostname is
\* the client up to its first ':' wherever that is, the whole client when it has
\* none; in every other case the parsed hostname is kept.
C10_HostnameFallback ==
    (fn.op = "hostname" /\ fn.done) =>
        fn.out = IF fn.hostname = <<>> /\ fn.f \in {"RFC3164", "Automatic"}
                 THEN BeforeColon(fn.client)
                 ELSE fn.hostname

\* the outcome of the timestamp step of Parse on buff: "none" when the <PRI>
\* did not parse (the step is not reached), "panic", "nil" when a layout
\* matched, else the error kind that selects the dialect
SniffOf(buff) ==
    LET p == ParsePriority(buff, 0, Len(buff))
        after(t) == IF t.panic THEN "panic" ELSE t.err
    IN  IF p.err # "nil" THEN "none"
        ELSE after(parseTimestamp3164(buff, p.cursor, Len(buff)))

\* C11: Parse on a valid <PRI> followed by text that matches no timestamp
\* layout and no vendor sentinel returns no error and yields the priority of
\* the <PRI>, the current time, empty hostname and tag, the whole buffer as content.
C11_UnknownTimestampTolerated ==
    (fn.op = "Parse3164" /\ fn.done /\ SniffOf(fn.buff) = "ErrTimestampUnknownFormat") =>
        /\ ~fn.out.panic /\ fn.out.err = "nil"
        /\ fn.out.parts = Dump3164(ParsePriority(fn.buff, 0, Len(fn.buff)).pri,
                                   [ts |-> Now, hostname |-> <<>>],
                                   [tag |-> <<>>, content |-> fn.buff])

\* C12: Parse on a buffer whose <PRI> is absent, malformed or out of range
\* returns no error and yields priority 13, facility 1, severity 5, the current
\* time, empty hostname and tag and the whole buffer as content.
C12_NoPriorityDefaults ==
    (fn.op = "Parse3164" /\ fn.done /\ ParsePriority(fn.buff, 0, Len(fn.buff)).err # "nil") =>
        /\ ~fn.out.panic /\ fn.out.err = "nil"
        /\ fn.out.parts.priority = 13 /\ fn.out.parts.facility = 1
        /\ fn.out.parts.severity = 5
        /\ fn.out.parts.timestamp = Now
        /\ fn.out.parts.hostname = <<>> /\ fn.out.parts.tag = <<>>
        /\ fn.out.parts.content = fn.buff

\* no <PRI>, and the buffer begins with a valid BSD stamp
C12_Witness ==
    /\ fn.op = "Parse3164" /\ fn.done
    /\ Len(fn.buff) > LenStamp /\ MatchStamp(SubSeq(fn.buff, 1, LenStamp))
    /\ fn.out.parts.priority = 13 /\ fn.out.parts.content = fn.buff

\* ^<\d+>: anchored at the start of the buffer
AnchoredAsa(buff) ==
    /\ PriPrefixEnd(buff) # -1 /\ PriPrefixEnd(buff) < Len(buff)
    /\ At(buff, PriPrefixEnd(buff)) = ":"

HasTimeQuote(buff) == Contains(buff, <<"t", "i", "m", "e", "=", "\"">>)

HasEventtime(buff) == Contains(buff, <<"e", "v", "e", "n", "t", "t", "i", "m", "e", "=">>)

\* C13: when neither layout matches, each dialect is chosen only for a buffer
\* that passes its test (time=" anywhere, eventtime= anywhere, ^<\d+>: at the
\* start, ^<\d+>ISO-stamp Z at the start), no dialect only for a buffer that
\* passes none, and a buffer with time=" (or eventtime=) that does not start
\* with <digits>: is SonicWall (or FortiOS) wherever else <digits>: occurs.
C13_DialectChoice ==
    (fn.op = "parseTimestamp" /\ fn.done /\ ~fn.out.panic /\ fn.out.err # "nil") =>
        /\ fn.out.err = "ErrSonicOSFormat" => HasTimeQuote(fn.buff)
        /\ fn.out.err = "ErrFortiOSFormat" => HasEventtime(fn.buff)
        /\ fn.out.err = "ErrCiscoASAFormat" => AnchoredAsa(fn.buff)
        /\ fn.out.err = "ErrCiscoASARFC5424" => checkCiscoASA_RFC5424(fn.buff)
        /\ fn.out.err = "ErrTimestampUnknownFormat" =>
              ~(HasTimeQuote(fn.buff) \/ HasEventtime(fn.buff) \/ AnchoredAsa(fn.buff)
                  \/ checkCiscoASA_RFC5424(fn.buff))
        /\ (HasTimeQuote(fn.buff) /\ ~AnchoredAsa(fn.buff)) => fn.out.err = "ErrSonicOSFormat"
        /\ (HasEventtime(fn.buff) /\ ~HasTimeQuote(fn.buff) /\ ~AnchoredAsa(fn.buff))
              => fn.out.err = "ErrFortiOSFormat"

Dialects == {"ErrSonicOSFormat", "ErrFortiOSFormat", "ErrCiscoASAFormat", "ErrCiscoASARFC5424"}

AllCanonical == \A i \in DOMAIN fn.frames : fn.frames[i].n = Len(fn.frames[i].m)

\* C15: scanning the concatenation of "<len(m)> m" yields the messages in
\* order, byte for byte, then ends without error, and the scan never stops
\* before that, however the reader cuts the input into reads.
C15_FramingRoundTrip ==
    (fn.op = "Scan" /\ AllCanonical) =>
        /\ fn.err = "nil"
        /\ Len(fn.tokens) <= Len(fn.frames)
        /\ \A i \in DOMAIN fn.tokens : fn.tokens[i] = fn.frames[i].m
        /\ fn.done => Len(fn.tokens) = Len(fn.frames)
        /\ ~fn.done => ENABLED FramerNext

\* two different messages, one of them cut by a read
C15_Witness ==
    /\ fn.op = "Scan" /\ AllCanonical /\ fn.done /\ fn.waited
    /\ Len(fn.tokens) = 2 /\ fn.tokens[1] # fn.tokens[2] /\ Len(fn.tokens[2]) > 9

\* one frame that declares fewer bytes than its message has
OneShort == Len(fn.frames) = 1 /\ fn.frames[1].n < Len(fn.frames[1].m)

\* what is left of the message after the declared bytes
Leftover == SubSeq(fn.frames[1].m, fn.frames[1].n + 1, Len(fn.frames[1].m))

\* s begins with decimal digits followed by a space
StartsWithCount(s) == \E d \in 1 .. (Len(s) - 1) : AllDigits(s, 0, d) /\ At(s, d) = " "

NILVALUE == <<"-">>

\* the parse of a whole message whose fields all fit their limits
WholeMessage5424 ==
    /\ fn.op = "Parse5424" /\ fn.done /\ fn.fields.cut = "full"
    /\ fn.fields.proc # Run(129) /\ fn.fields.msgid # Run(33)

\* the TIMESTAMP field is a run of ten or more digits, without / with a fraction
UnixNoFraction == Len(fn.fields.ts) >= 10 /\ AllDigits(fn.fields.ts, 0, Len(fn.fields.ts))

UnixFraction == Len(fn.fields.ts) > 11 /\ AllDigits(fn.fields.ts, 0, 10) /\ At(fn.fields.ts, 10) = "."

\* C17: an APP-NAME, PROCID or MSGID sent as the NILVALUE "-" is exposed as the
\* empty string in the parsed record.
C17_NilvalueIsEmpty ==
    (WholeMessage5424 /\ fn.out.err = "nil") =>
        /\ fn.fields.app = NILVALUE => fn.out.parts.app_name = <<>>
        /\ fn.fields.proc = NILVALUE => fn.out.parts.proc_id = <<>>
        /\ fn.fields.msgid = NILVALUE => fn.out.parts.msg_id = <<>>

\* PROCID does not parse: longer than 128 bytes, or the buffer ends before its space
ProcIdFails == fn.fields.proc = Run(129) \/ fn.fields.cut = "procid"

\* PROCID parses and MSGID does not: longer than 32 bytes, or the buffer ends
MsgIdFails == ~ProcIdFails /\ (fn.fields.msgid = Run(33) \/ fn.fields.cut = "msgid")

\* C18: when PROCID or MSGID does not parse, Parse returns no error and the
\* record carries the priority, version, timestamp, hostname and app-name parsed
\* so far, with the failed field and the header fields after it empty.
C18_ProcIdMsgIdTolerated ==
    (fn.op = "Parse5424" /\ fn.done /\ ~UnixNoFraction /\ (ProcIdFails \/ MsgIdFails)) =>
        /\ fn.out.err = "nil"
        /\ fn.out.parts.priority = 34 /\ fn.out.parts.version = 1
        /\ fn.out.parts.timestamp = parseTimestamp5424(fn.buff, 6, Len(fn.buff)).ts
        /\ fn.out.parts.hostname = fn.fields.host
        /\ fn.fields.app # NILVALUE => fn.out.parts.app_name = fn.fields.app
        /\ ProcIdFails => fn.out.parts.proc_id = <<>>
        /\ (MsgIdFails /\ fn.fields.proc # NILVALUE) => fn.out.parts.proc_id = fn.fields.proc
        /\ fn.out.parts.msg_id = <<>>

\* C19: a TIMESTAMP of ten or more digits, with or without ".fraction", followed
\* by a space and the rest of the header, is read as seconds since the epoch;
\* Parse returns no error, structured_data is "-", and hostname, app-name,
\* proc-id and msg-id are read from the fields that follow.
C19_UnixTimestamp ==
    (WholeMessage5424 /\ (UnixNoFraction \/ UnixFraction)) =>
        /\ fn.out.err = "nil"
        /\ fn.out.parts.timestamp.unix = SubSeq(fn.fields.ts, 1, 10)
        /\ fn.out.parts.structured_data = <<"-">>
        /\ fn.out.parts.hostname = fn.fields.host
        /\ fn.fields.app # NILVALUE => fn.out.parts.app_name = fn.fields.app
        /\ fn.fields.proc # NILVALUE => fn.out.parts.proc_id = fn.fields.proc
        /\ fn.fields.msgid # NILVALUE => fn.out.parts.msg_id = fn.fields.msgid

\* C20: parsing the canonical RFC 5424 message built from field values, whose
\* STRUCTURED-DATA is "-" or bracketed elements with quoted values that may
\* hold ']' and spaces, returns no error, and hostname, app_name, proc_id,
\* msg_id and structured_data equal the values the message was built from.
C20_RoundTrip5424 ==
    (WholeMessage5424 /\ ~UnixNoFraction /\ ~UnixFraction) =>
        /\ fn.out.err = "nil"
        /\ fn.out.parts.hostname = fn.fields.host
        /\ fn.fields.app # NILVALUE => fn.out.parts.app_name = fn.fields.app
        /\ fn.fields.proc # NILVALUE => fn.out.parts.proc_id = fn.fields.proc
        /\ fn.fields.msgid # NILVALUE => fn.out.parts.msg_id = fn.fields.msgid
        /\ fn.out.parts.structured_data = fn.fields.sd

\* C21: no receive worker ever sends on the datagram queue after Kill has
\* closed it: a worker that holds a payload has queued it before the close, and
\* none has issued a send on the closed queue.
C21_NoSendOnClosedQueue ==
    \A j \in DOMAIN receivers :
        /\ receivers[j].pc # "panic"
        /\ datagramChannel.state = "closed" => receivers[j].pc # "send"

\* C22: once Kill has closed the error stream no send on it is pending: every
\* error-sender goroutine started for a parse error, a close error or a
\* deadline error has delivered its error, also when nobody reads the stream.
C22_NoSendOnClosedErrChan ==
    (ErrChan = "closed" /\ errOffered["readbuf"] = 0) => errPending = 0

\* the buffers whose payload is in the datagram queue, or is being framed,
\* parsed or handled by the parser worker
PayloadBuffers ==
    {datagramChannel.q[k].buf : k \in DOMAIN datagramChannel.q}
        \cup (IF datagramParser.pc = "parse" THEN {datagramParser.msg.buf} ELSE {})

\* the buffers a receive worker holds for its next read
ReadBuffers == {receivers[j].buf : j \in {i \in DOMAIN receivers : receivers[i].pc = "read"}}

\* C23: a buffer whose payload is queued or is being framed, parsed or handled
\* is neither in the pool nor held by a receive worker for a new read, and no
\* two queued payloads share a buffer; a buffer enters the pool only in the
\* step in which the parser worker is done with its datagram.
C23_BufferNotReusedEarly ==
    /\ [](/\ PayloadBuffers \cap datagramPool = {}
          /\ PayloadBuffers \cap ReadBuffers = {}
          /\ \A k, m \in DOMAIN datagramChannel.q :
                datagramChannel.q[k].buf = datagramChannel.q[m].buf => k = m
          /\ datagramParser.pc = "parse" =>
                \A k \in DOMAIN datagramChannel.q :
                    datagramChannel.q[k].buf # datagramParser.msg.buf)
    /\ [][\A b \in datagramPool' \ datagramPool :
             /\ datagramParser.pc = "parse" /\ datagramParser.msg.buf = b
             /\ datagramParser'.pc = "recv"]_vars

\* a worker reads into a buffer that came back from the pool while the payload
\* of another buffer waits in the queue
C23_Witness ==
    /\ made = 2 /\ datagramChannel.q # <<>>
    /\ \E j \in DOMAIN receivers :
          /\ receivers[j].pc = "read"
          /\ receivers[j].buf \notin PayloadBuffers
          /\ receivers[j].buf < made

\* after the shutdown signal a scan worker delivers a record only from the scan
\* that was in progress, goes from the top of its loop only to the close of its
\* connection, and stays closed once it has closed
AfterSignal(c) ==
    /\ Len(scanners'[c].got) > Len(scanners[c].got) =>
          /\ scanners[c].pc = "scan" /\ scanners'[c].pc = "check"
          /\ Len(scanners'[c].got) = Len(scanners[c].got) + 1
    /\ scanners[c].pc = "check" =>
          /\ scanners'[c].pc \in {"check", "done"}
          /\ scanners'[c].pc = "done" => (~scanners[c].closed /\ scanners'[c].closed)
    /\ scanners[c].pc \in {"done", "none"} =>
          /\ scanners'[c].pc = scanners[c].pc /\ scanners'[c].closed
          /\ scanners'[c].got = scanners[c].got

\* the safety half of C24
AtMostOneMoreRecord ==
    [][doneTcp = "closed" => \A c \in DOMAIN scanners : AfterSignal(c)]_vars

\* C24: after Kill has broadcast the shutdown signal each scan worker hands at
\* most one further record to the handler, the one whose scan was in progress,
\* and then closes its connection, once: a worker that has not closed yet can
\* take its next step without waiting for the peer.
C24_OneMoreRecordThenClose ==
    /\ AtMostOneMoreRecord
    /\ [](\A c \in DOMAIN scanners :
             (doneTcp = "closed" /\ ~crashed /\ scanners[c].pc \in {"check", "scan"})
             => ENABLED ScannerStep(c))

\* every packet connection and every listener is closed
AllTransportsClosed ==
    /\ \A j \in DOMAIN connections : connections[j].closed
    /\ \A i \in DOMAIN listeners : listeners[i].closed

\* the step closed the transports before the k-th and no other, counting packet
\* connections first, then listeners
ClosedBefore(k) ==
    /\ \A j \in DOMAIN connections : connections'[j].closed <=> j < k
    /\ \A i \in DOMAIN listeners : listeners'[i].closed <=> Len(connections) + i < k

\* C25: a Kill that returns an error has closed only the transports before the
\* failing one and has left the shutdown signal, the datagram queue and the
\* error stream as they were; a Kill that returns nil has closed every
\* transport, the shutdown signal, the datagram queue if there is one, and the
\* error stream; nothing else closes any of them.
C25_KillStopsAtFirstError ==
    /\ [][killRet' # killRet =>
            /\ Len(connections') = Len(connections) /\ Len(listeners') = Len(listeners)
            /\ killRet' = "err" =>
                  /\ UNCHANGED channels
                  /\ \E k \in 1 .. (Len(connections) + Len(listeners)) : ClosedBefore(k)
            /\ killRet' = "nil" =>
                  /\ AllTransportsClosed'
                  /\ doneTcp # "nil" => doneTcp' = "closed"
                  /\ datagramChannel.state # "nil" => datagramChannel'.state = "closed"
                  /\ ErrChan' = "closed"]_vars
    /\ [][killRet' = killRet =>
            /\ doneTcp' = "closed" <=> doneTcp = "closed"
            /\ datagramChannel'.state = "closed" <=> datagramChannel.state = "closed"
            /\ ErrChan' = "closed" <=> ErrChan = "closed"
            /\ \A j \in DOMAIN connections : connections'[j].closed = connections[j].closed
            /\ \A i \in DOMAIN listeners : listeners'[i].closed = listeners[i].closed]_vars
    /\ [](/\ (doneTcp = "closed" \/ datagramChannel.state = "closed" \/ ErrChan = "closed")
             => (killRet = "nil" /\ AllTransportsClosed)
          /\ killRet = "none" =>
                /\ \A j \in DOMAIN connections : ~connections[j].closed
                /\ \A i \in DOMAIN listeners : ~listeners[i].closed)

\* the packet connection is closed, the listener's Close failed
C25_Witness ==
    /\ killRet = "err" /\ Len(connections) = 1 /\ Len(listeners) = 1
    /\ connections[1].closed /\ ~listeners[1].closed
    /\ doneTcp = "open" /\ datagramChannel.state = "open" /\ ErrChan = "open"

\* the bytes of d after its first n are all below 32
OnlyControlAfter(d, n) == \A k \in (n + 1) .. Len(d) : d[k] \in ControlBytes

\* C26: a queued payload is not empty, ends with a byte of value 32 or more and
\* is the datagram without its longest suffix of bytes below 32, bytes below 32
\* elsewhere being kept; a datagram with a byte of 32 or more is queued, one
\* made up only of bytes below 32 is not.
C26_QueuedPayloadTrimmed ==
    (fn.op = "receive" /\ fn.done) =>
        /\ fn.queued <=> ~OnlyControlAfter(fn.d, 0)
        /\ fn.queued =>
              /\ fn.payload # <<>>
              /\ fn.payload[Len(fn.payload)] \notin ControlBytes
              /\ Len(fn.payload) <= Len(fn.d)
              /\ fn.payload = SubSeq(fn.d, 1, Len(fn.payload))
              /\ OnlyControlAfter(fn.d, Len(fn.payload))

\* a payload that keeps a byte below 32 inside and loses two at the end
C26_Witness ==
    /\ fn.op = "receive" /\ fn.done /\ fn.queued
    /\ fn.payload = <<"\n", "a">> /\ Len(fn.d) = 4

\* index of the first byte of set at or after from, Len(buff) when there is none
FirstOf(buff, from, set) ==
    LET hits == {i \in from .. (Len(buff) - 1) : At(buff, i) \in set}
    IN  IF hits = {} THEN Len(buff) ELSE CHOOSE i \in hits : \A k \in hits : i <= k

\* C27: tag parsing returns the bytes from the cursor up to the first '[', ':'
\* or space, so that nothing from the first '[' on is in the tag; the cursor is
\* left past the terminating ':' or space and past one following space; with no
\* ':' or space before the end the tag is empty and the cursor unchanged.
C27_TagUpToFirstBoundary ==
    (fn.op = "parseTag" /\ fn.done) =>
        LET e == FirstOf(fn.buff, fn.cursor, {":", " "})
        IN  /\ ~fn.out.panic
            /\ IF e = Len(fn.buff)
               THEN fn.out.tag = <<>> /\ fn.out.cursor = fn.cursor
               ELSE /\ fn.out.tag = Slice(fn.buff, fn.cursor,
                                          FirstOf(fn.buff, fn.cursor, {"[", ":", " "}))
                    /\ fn.out.cursor = IF e + 1 < Len(fn.buff) /\ At(fn.buff, e + 1) = " "
                                       THEN e + 2 ELSE e + 1

\* C28: for "<PRI>TS HOST TAG: text" with TS a valid RFC3339 timestamp, with a
\* numeric offset or with the offset Z, Parse returns no error and yields the
\* instant of TS, HOST as hostname, TAG as tag and the whole buffer as content,
\* the same as for a BSD stamp.
C28_RFC3339Header ==
    (fn.op = "Parse3164" /\ fn.done) =>
        /\ ~fn.out.panic /\ fn.out.err = "nil"
        /\ fn.out.parts.timestamp = fn.fields.ts.at
        /\ fn.out.parts.hostname = fn.fields.host
        /\ fn.out.parts.tag = fn.fields.tag
        /\ fn.out.parts.content = fn.buff

\* the indexes of the ']' after the cursor that end the buffer or precede a space
Closers ==
    {k \in (fn.cursor + 1) .. (Len(fn.buff) - 1) :
        At(fn.buff, k) = "]" /\ (k + 1 = Len(fn.buff) \/ At(fn.buff, k + 1) = " ")}

\* what C29 says of a cursor that stands on a byte
OnAByte ==
    IF At(fn.buff, fn.cursor) = "-"
    THEN fn.out.err = "nil" /\ fn.out.sd = <<"-">>
    ELSE IF At(fn.buff, fn.cursor) = "[" /\ Closers # {}
    THEN LET k == CHOOSE i \in Closers : \A j \in Closers : i <= j
         IN  /\ fn.out.err = "nil"
             /\ fn.out.sd = Slice(fn.buff, fn.cursor, k + 1)
             /\ fn.out.cursor = k + 1
    ELSE fn.out.err = "ErrNoStructuredData"

\* C29 as stated: "-" when the byte at the cursor is '-'; the slice from '['
\* through the first ']' that is followed by a space or by the end, with the
\* cursor after that ']'; in every other case the no-structured-data error.
C29_StructuredDataSlice ==
    (fn.op = "parseStructuredData" /\ fn.done) =>
        IF fn.cursor < Len(fn.buff) THEN OnAByte
        ELSE fn.out.err = "ErrNoStructuredData"

\* C29, amended: as stated when the cursor stands on a byte; with the cursor at
\* the end of the buffer the parser returns "-" without error and leaves the
\* cursor where it is.
C29_StructuredDataAmended ==
    (fn.op = "parseStructuredData" /\ fn.done) =>
        IF fn.cursor < Len(fn.buff) THEN OnAByte
        ELSE fn.out.err = "nil" /\ fn.out.sd = <<"-">> /\ fn.out.cursor = fn.cursor

\* the first ']' is followed by a letter, the second ends the buffer
C29_Witness ==
    /\ fn.op = "parseStructuredData" /\ fn.done /\ fn.cursor = 0
    /\ fn.buff = <<"[", "]", "a", "]">> /\ fn.out.sd = fn.buff /\ fn.out.cursor = 4

\* C30: the cursor the RFC 3164 parser is left with, after its timestamp step
\* and after Parse, lies between 0 and the length of the buffer, for every
\* input.
C30_CursorInBounds ==
    (fn.op \in {"Parse3164", "parseTimestamp"} /\ fn.done) =>
        (0 <= fn.out.cursor /\ fn.out.cursor <= Len(fn.buff))
====
